---- MODULE Spec2Model ----
(***************************************************************************)
(* Falconer: the policy engine (falconer/policy/engine.py), its ledger     *)
(* store (falconer/persistence.py) and the CLI send command                *)
(* (falconer/cli.py), as a state machine.                                  *)
(*                                                                         *)
(* Spec      every handler is one atomic step (one caller at a time).      *)
(* SpecCli   the same, with the CLI send command as one more call site.    *)
(* SpecConc  two callers sharing one data directory; record_transaction    *)
(*           is split at its file reads and writes.                        *)
(* SpecAllowed  Spec with is_transaction_allowed as the query.             *)
(* SpecSend  the CLI send command over every outcome of the wallet.        *)
(* SpecStore record_transaction over _save_json with I/O errors and        *)
(*           process deaths between its file operations.                   *)
(* SpecFunding  the funding proposal manager                               *)
(*           (falconer/funding/manager.py), one caller at a time.          *)
(* SpecMany  the proposal manager over more than a hundred proposals.      *)
(* SpecFundingConc  two callers of the proposal manager; a call is split   *)
(*           at its reads and writes of the proposals file.                *)
(* SpecWebhook  the approval webhook (falconer/funding/webhook_server.py)  *)
(*           and its signature check (falconer/funding/n8n_adapter.py).    *)
(* SpecLog   the bounded transaction history and violation log.            *)
(* SpecSummary  the spend summary and cleanup_old_data next to the engine. *)
(* SpecPolicy   Policy construction over valid and invalid caps.           *)
(* SpecValidated  one caller that records only what it just validated.     *)
(* SpecAgent  the agent's funding request (falconer/ai/agent.py) next to   *)
(*           an operator approving or rejecting.                           *)
(* SpecLoop, SpecLoopFair  the autonomous loop; the fair one for liveness. *)
(***************************************************************************)
EXTENDS Integers, Sequences, FiniteSets, TLC

VARIABLES
    today,                    \* datetime.utcnow().date(), as a day number
    policy,                   \* the Policy every PolicyEngine is built with
    daily_spends_file,        \* data/daily_spends.json
    transaction_history_file, \* data/transaction_history.json
    policy_violations_file,   \* data/policy_violations.json
    persistence,              \* PolicyEngine.persistence: built with a PersistenceManager or with None
    daily_spends,             \* PolicyEngine.daily_spends, the in-memory fallback ledger
    ret,                      \* the last handler call: its arguments, what it returned, and
                              \* (streak) whether it repeats the call before it
    recorded,                 \* per call site and date: sum of the amounts and number of
                              \* record_transaction calls; concurrent: calls begun in SpecConc
    pc,                       \* SpecConc: each caller's position
    daily_spends_bak,         \* data/daily_spends.json.bak, the backup _save_json makes
    funding_proposals_file,   \* data/funding_proposals.json: proposal_id -> FundingProposal
    funding_proposal_max_pending, \* Config.funding_proposal_max_pending
    now,                      \* datetime.utcnow(), in hours
    fret,                     \* the last FundingProposalManager call and how it ended
    fproc,                    \* SpecFundingConc: each caller of the proposal manager, its
                              \* position and its local variables
    config,                   \* Config: n8n_webhook_secret and env
    wret,                     \* the last webhook call: what came in and what was answered
    agent,                    \* AIAgent: state.is_active, and where start_autonomous_mode is
    loc                       \* SpecConc: each caller's local variables, and what its last
                              \* validate_transaction saw (seen: the daily total it read,
                              \* seen_calls: how many record_transaction calls had begun)

\* the proposal manager's state
webhook_vars == <<fproc, config, wret, agent>>
funding_vars == <<funding_proposals_file, funding_proposal_max_pending, now, fret, webhook_vars>>

\* what the handlers of the policy engine and of the CLI never touch
other_vars == <<daily_spends_bak, funding_vars>>

\* what the handlers of the proposal manager never touch
engine_vars == <<today, policy, daily_spends_file, transaction_history_file,
                 policy_violations_file, persistence, daily_spends, ret, recorded, pc, loc,
                 daily_spends_bak>>

vars == <<today, policy, daily_spends_file, transaction_history_file,
          policy_violations_file, persistence, daily_spends, ret, recorded, pc, loc,
          other_vars>>

(***************************************************************************)
(* Bounds                                                                  *)
(***************************************************************************)
MaxDay == 2          \* dates 1..MaxDay
MaxAmount == 3       \* amount_sats in 1..MaxAmount
MaxCap == 3          \* max_daily_spend_sats; max_single_tx_sats is MaxCap - 1 or MaxCap
MaxRecords == 2      \* record_transaction calls
MaxLogged == 1       \* violation log length at which validate_transaction stops logging calls
MaxConcRecords == 2  \* record_transaction calls of the concurrent callers

Days == 1..MaxDay
Amounts == 1..MaxAmount

\* Optional[int] fields: None is kept apart from every integer the model draws.
None == -1
Truthy(x) == x # None /\ x # 0

Destinations == {"bc1qtest1", "bc1qnotallowed"}
FeeRates == {None, 2, 3}
FeeCaps == {None, 2}
Txids == {"None", "tx1"}

Policies ==
    { [max_daily_spend_sats |-> d, max_single_tx_sats |-> s,
       allowed_destinations |-> a, max_fee_rate_sats_per_vbyte |-> f] :
        d \in {MaxCap}, s \in {MaxCap - 1, MaxCap}, a \in {{}, {"bc1qtest1"}}, f \in FeeCaps }

\* a Policy whose validator does not compare the two caps
single_tx_not_compared(p) ==
    /\ p.max_daily_spend_sats > 0
    /\ p.max_single_tx_sats > 0

\* Policy's validator: max_single_tx_sats <= max_daily_spend_sats, both > 0
single_tx_less_than_daily(p) ==
    /\ p.max_daily_spend_sats > 0
    /\ p.max_single_tx_sats > 0
    /\ ~(p.max_single_tx_sats > p.max_daily_spend_sats)

\* the caps handed to Policy(...): zero, negative, and both sides of each other
PolicyCaps == -1..(MaxCap + 1)

NoPolicyArgs == [max_daily_spend_sats |-> 0, max_single_tx_sats |-> 0]

\* Policy(max_daily_spend_sats=d, max_single_tx_sats=s, ...): the model, or
\* ValidationError when a Field constraint or the validator rejects
Policy(d, s, a, f) ==
    LET p == [max_daily_spend_sats |-> d, max_single_tx_sats |-> s,
              allowed_destinations |-> a, max_fee_rate_sats_per_vbyte |-> f]
    IN [raised |-> ~single_tx_less_than_daily(p), policy |-> p]

TransactionRequest ==
    [destination : Destinations, amount_sats : Amounts, fee_rate_sats_per_vbyte : FeeRates]

PolicyViolation(type, sev) == [violation_type |-> type, severity |-> sev]

DailySpend(date, total, count) ==
    [date |-> date, total_spent_sats |-> total, transaction_count |-> count]

(***************************************************************************)
(* Ledger store (persistence.py)                                           *)
(***************************************************************************)
EmptyDict == [k \in {} |-> 0]
NoFile(empty) == [exists |-> FALSE, corrupt |-> FALSE, data |-> empty]
File(data) == [exists |-> TRUE, corrupt |-> FALSE, data |-> data]
\* a file that json.load cannot parse: cut short by a write that did not finish
CorruptFile(empty) == [exists |-> TRUE, corrupt |-> TRUE, data |-> empty]

Put(dict, k, v) == [x \in (DOMAIN dict) \cup {k} |-> IF x = k THEN v ELSE dict[x]]

\* _load_json(path, {}): the file's content; {} when the file does not exist
\* and when json.load fails on it
_load_daily_spends(file) == IF file.exists /\ ~file.corrupt THEN file.data ELSE EmptyDict

\* _load_json(path, []) followed by the callers' isinstance(.., list) check:
\* a missing file yields `[] or {}` = {}, which the callers replace by []
_load_list(file) == IF file.exists /\ ~file.corrupt THEN file.data ELSE <<>>

\* load_daily_spend(date_str): the record, or None (here: absent |-> TRUE)
load_daily_spend(file, date) ==
    LET d == _load_daily_spends(file)
    IN IF date \in DOMAIN d
       THEN [absent |-> FALSE, rec |-> d[date]]
       ELSE [absent |-> TRUE, rec |-> DailySpend(date, 0, 0)]

\* the last n entries of a list: list[-n:]
LastN(s, n) == IF Len(s) > n THEN SubSeq(s, Len(s) - n + 1, Len(s)) ELSE s

MaxHistoryEntries == 1000
MaxViolationEntries == 500

\* append, and on overflow keep the oldest cap entries: list[:cap]
AppendBoundedKeepOldest(s, e, cap) ==
    LET t == Append(s, e) IN IF Len(t) > cap THEN SubSeq(t, 1, cap) ELSE t

\* append and keep the most recent cap entries
AppendBounded(s, e, cap) ==
    LET t == Append(s, e) IN IF Len(t) > cap THEN LastN(t, cap) ELSE t

\* save_daily_spend, with one caller: load all, set the date's record, write all
save_daily_spend(file, rec) == File(Put(_load_daily_spends(file), rec.date, rec))

\* save_transaction's record
TransactionRecord(request, txid) ==
    [destination |-> request.destination,
     amount_sats |-> request.amount_sats,
     fee_rate_sats_per_vbyte |-> request.fee_rate_sats_per_vbyte,
     txid |-> txid,
     status |-> IF txid # "None" THEN "completed" ELSE "pending"]

save_transaction(file, request, txid) ==
    File(AppendBounded(_load_list(file), TransactionRecord(request, txid), MaxHistoryEntries))

save_policy_violation(file, violation) ==
    File(AppendBounded(_load_list(file), violation, MaxViolationEntries))

RECURSIVE SaveAll(_, _)
SaveAll(file, violations) ==
    IF violations = <<>> THEN file
    ELSE SaveAll(save_policy_violation(file, Head(violations)), Tail(violations))

(***************************************************************************)
(* Policy engine (policy/engine.py)                                        *)
(***************************************************************************)
\* the in-memory list: first record with the date, if any
RECURSIVE FindSpend(_, _, _)
FindSpend(spends, date, i) ==
    IF i > Len(spends) THEN 0
    ELSE IF spends[i].date = date THEN i
    ELSE FindSpend(spends, date, i + 1)

\* a _get_daily_spend that never finds the day's record
_get_daily_spend_not_found(pers, file, spends, date) == 0

\* _get_daily_spend(date)
_get_daily_spend(pers, file, spends, date) ==
    IF pers
    THEN LET l == load_daily_spend(file, date)
         IN IF l.absent THEN 0 ELSE l.rec.total_spent_sats
    ELSE LET i == FindSpend(spends, date, 1)
         IN IF i = 0 THEN 0 ELSE spends[i].total_spent_sats

AmountLimitExceeded(p, request) == request.amount_sats > p.max_single_tx_sats

\* the daily check without what was already spent today
DailyLimitIgnoresSpent(p, today_spent, request) ==
    request.amount_sats > p.max_daily_spend_sats

DailyLimitExceeded(p, today_spent, request) ==
    today_spent + request.amount_sats > p.max_daily_spend_sats

DestinationNotAllowed(p, request) ==
    /\ p.allowed_destinations # {}
    /\ request.destination \notin p.allowed_destinations

FeeRateExceeded(p, request) ==
    /\ Truthy(p.max_fee_rate_sats_per_vbyte)
    /\ Truthy(request.fee_rate_sats_per_vbyte)
    /\ request.fee_rate_sats_per_vbyte > p.max_fee_rate_sats_per_vbyte

\* validate_transaction: the violations in the order the checks find them,
\* the ones handed to save_policy_violation, and whether the call raised.
\* The first three checks save only `if self.persistence`; the fee-rate check
\* calls self.persistence.save_policy_violation unguarded, which raises
\* AttributeError when the engine was built without a persistence manager.
validate_transaction(p, pers, today_spent, request) ==
    LET v1 == IF AmountLimitExceeded(p, request)
              THEN <<PolicyViolation("amount_limit_exceeded", "error")>> ELSE <<>>
        v2 == IF DailyLimitExceeded(p, today_spent, request)
              THEN <<PolicyViolation("daily_limit_exceeded", "error")>> ELSE <<>>
        v3 == IF DestinationNotAllowed(p, request)
              THEN <<PolicyViolation("destination_not_allowed", "error")>> ELSE <<>>
        v4 == IF FeeRateExceeded(p, request)
              THEN <<PolicyViolation("fee_rate_exceeded", "warning")>> ELSE <<>>
    IN IF v4 # <<>> /\ ~pers
       THEN [raised |-> TRUE, violations |-> <<>>, saved |-> <<>>]
       ELSE [raised |-> FALSE,
             violations |-> v1 \o v2 \o v3 \o v4,
             saved |-> IF pers THEN v1 \o v2 \o v3 \o v4 ELSE <<>>]

\* the update with `=` for `+=`: the day's total is overwritten
UpdateSpendOverwrite(rec, request) ==
    [date |-> rec.date,
     total_spent_sats |-> request.amount_sats,
     transaction_count |-> rec.transaction_count + 1]

\* record_transaction's update of the day's record
UpdateSpend(rec, request) ==
    DailySpend(rec.date,
               rec.total_spent_sats + request.amount_sats,
               rec.transaction_count + 1)

\* record_transaction, in-memory branch: find or append the day's record, update it
RecordInMemory(spends, date, request) ==
    LET i == FindSpend(spends, date, 1)
    IN IF i = 0
       THEN Append(spends, UpdateSpend(DailySpend(date, 0, 0), request))
       ELSE [spends EXCEPT ![i] = UpdateSpend(spends[i], request)]

(***************************************************************************)
(* Funding proposals (funding/schema.py, funding/manager.py)               *)
(***************************************************************************)
MaxProposals == 2    \* proposals ever generated
MaxHour == 3         \* the clock runs over 0..MaxHour
MaxStored == 101     \* proposals ever generated in SpecMany
MaxAppends == 1002   \* save_transaction calls in SpecLog
MaxCycles == 6
MaxViolationAppends == 502  \* save_policy_violation calls in SpecLog

ProposalIds == 1..MaxProposals
MaxAgeHours == {1, 2}
Humans == {"alice"}
Notes == {"", "looks fine"}

\* FundingProposal(...): status defaults to pending, the stamps to None
FundingProposal(id, created_at) ==
    [proposal_id |-> id, created_at |-> created_at, status |-> "pending",
     approved_at |-> None, approved_by |-> "None",
     rejected_at |-> None, rejected_by |-> "None", approval_notes |-> "None",
     executed_at |-> None, execution_txid |-> "None", n8n_workflow_id |-> "None"]

\* _load_funding_proposals: _load_json(path), {} for a missing or unreadable file
_load_funding_proposals(file) == IF file.exists /\ ~file.corrupt THEN file.data ELSE EmptyDict

\* load_funding_proposal(proposal_id): the proposal, or None (found |-> FALSE)
load_funding_proposal(file, id) ==
    LET proposals == _load_funding_proposals(file)
    IN IF id \in DOMAIN proposals
       THEN [found |-> TRUE, proposal |-> proposals[id]]
       ELSE [found |-> FALSE, proposal |-> FundingProposal(id, 0)]

\* load_funding_proposals(status, limit): the ids of the stored proposals with
\* that status ("None": every status), sorted by created_at descending (a
\* stable sort: equal times keep the file's order) and cut to the first limit
LoadLimit == 100
ListLimit == 50
load_funding_proposals(file, status, limit) ==
    LET proposals == _load_funding_proposals(file)
        matching == {id \in DOMAIN proposals : status = "None" \/ proposals[id].status = status}
        before(j, id) == \/ proposals[j].created_at > proposals[id].created_at
                         \/ proposals[j].created_at = proposals[id].created_at /\ j < id
    IN IF Cardinality(matching) <= limit THEN matching
       ELSE {id \in matching : Cardinality({j \in matching : before(j, id)}) < limit}

\* save_funding_proposal(proposal): load all, set this one, write all
save_funding_proposal(file, proposal) ==
    File(Put(_load_funding_proposals(file), proposal.proposal_id, proposal))

\* the manager's operations: the error they raise ("None": they return) and
\* the file they leave
Raised(error, file) == [error |-> error, file |-> file]

generate_proposal(file, max_pending, id, t) ==
    IF Cardinality(load_funding_proposals(file, "pending", ListLimit)) >= max_pending
    THEN Raised("Maximum pending proposals reached", file)
    ELSE Raised("None", save_funding_proposal(file, FundingProposal(id, t)))

\* approve_proposal that does not look at the status
approve_proposal_any_status(file, id, approved_by, notes, t) ==
    LET l == load_funding_proposal(file, id)
    IN IF ~l.found THEN Raised("not found", file)
       ELSE Raised("None", save_funding_proposal(file,
                [l.proposal EXCEPT !.status = "approved", !.approved_at = t,
                                   !.approved_by = approved_by]))

approve_proposal(file, id, approved_by, notes, t) ==
    LET l == load_funding_proposal(file, id)
    IN IF ~l.found THEN Raised("not found", file)
       ELSE IF l.proposal.status # "pending" THEN Raised("is not in pending status", file)
       ELSE Raised("None", save_funding_proposal(file,
                [l.proposal EXCEPT !.status = "approved", !.approved_at = t,
                                   !.approved_by = approved_by,
                                   !.approval_notes = IF notes # "" THEN notes ELSE @]))

reject_proposal(file, id, rejected_by, reason, t) ==
    LET l == load_funding_proposal(file, id)
    IN IF ~l.found THEN Raised("not found", file)
       ELSE IF l.proposal.status # "pending" THEN Raised("is not in pending status", file)
       ELSE Raised("None", save_funding_proposal(file,
                [l.proposal EXCEPT !.status = "rejected", !.rejected_at = t,
                                   !.rejected_by = rejected_by, !.approval_notes = reason]))

mark_executed(file, id, txid, t) ==
    LET l == load_funding_proposal(file, id)
    IN IF ~l.found THEN Raised("not found", file)
       ELSE IF l.proposal.status # "approved" THEN Raised("is not approved", file)
       ELSE Raised("None", save_funding_proposal(file,
                [l.proposal EXCEPT !.status = "executed", !.executed_at = t,
                                   !.execution_txid = txid]))

\* expire_old_proposals that looks at every stored proposal, pending or not
expire_every_status(file, max_age_hours, t) ==
    LET proposals == _load_funding_proposals(file)
        old == {id \in DOMAIN proposals : proposals[id].created_at < t - max_age_hours}
    IN [count |-> Cardinality(old),
        file |-> IF old = {} THEN file
                 ELSE File([id \in DOMAIN proposals |->
                              IF id \in old THEN [proposals[id] EXCEPT !.status = "expired"]
                              ELSE proposals[id]])]

\* expire_old_proposals(max_age_hours): the loaded pending proposals older
\* than the cutoff are saved as expired, one save_funding_proposal each
expire_old_proposals(file, max_age_hours, t) ==
    LET proposals == _load_funding_proposals(file)
        pending == load_funding_proposals(file, "pending", LoadLimit)
        old == {id \in pending : proposals[id].created_at < t - max_age_hours}
    IN [count |-> Cardinality(old),
        file |-> IF old = {} THEN file
                 ELSE File([id \in DOMAIN proposals |->
                              IF id \in old THEN [proposals[id] EXCEPT !.status = "expired"]
                              ELSE proposals[id]])]

\* get_proposal_statistics: the counts are taken over the proposals that
\* load_funding_proposals() returns; approval_rate is kept as the fraction
\* <<approved, decided>>, <<0, 1>> for the 0.0 it starts with
NoStats == [total_proposals |-> 0, approved |-> 0, rejected |-> 0, approval_rate |-> <<0, 1>>]
get_proposal_statistics(file) ==
    LET proposals == _load_funding_proposals(file)
        all_proposals == load_funding_proposals(file, "None", LoadLimit)
        approved == Cardinality({id \in all_proposals : proposals[id].status = "approved"})
        rejected == Cardinality({id \in all_proposals : proposals[id].status = "rejected"})
        decided == approved + rejected
    IN [total_proposals |-> Cardinality(all_proposals),
        approved |-> approved, rejected |-> rejected,
        approval_rate |-> IF decided > 0 THEN <<approved, decided>> ELSE <<0, 1>>]

\* the class of the exception a manager operation raises with that message
ExceptionOf(error) == IF error = "None" THEN "None" ELSE "ValueError"

NoFret == [op |-> "none", proposal_id |-> 0, error |-> "None", exception |-> "None",
           count |-> 0, max_age_hours |-> 0, at |-> 0, stats |-> NoStats]

\* the callers of the proposal manager that share the data directory: the
\* autonomous loop (or the CLI) and the webhook server
FProcs == {"loop", "webhook"}
NoProc == [pc |-> "idle", op |-> "none", proposal |-> FundingProposal(0, 0),
           proposals |-> EmptyDict, todo |-> {}, error |-> "None", count |-> 0]

\* Config(): no webhook secret, env "dev"
DefaultConfig == [n8n_webhook_secret |-> "", env |-> "dev"]
NoWret == [op |-> "none", signature |-> [key |-> "", message |-> ""], timestamp |-> "",
           body |-> "", current_time |-> 0, verified |-> FALSE, status_code |-> 0]

\* no concurrent caller and no webhook server at work
\* AIAgent.__init__: AIAgentState() has is_active False; start_autonomous_mode
\* has not been called
NoAgent == [is_active |-> FALSE, pc |-> "new", cycles |-> 0, failures |-> 0, slept |-> 0]

NoWebhook ==
    /\ fproc = [p \in FProcs |-> NoProc]
    /\ config = DefaultConfig
    /\ wret = NoWret
    /\ agent = NoAgent

\* no proposal manager at work: the policy engine's specifications
NoFunding ==
    /\ funding_proposals_file = NoFile(EmptyDict)
    /\ funding_proposal_max_pending = 3
    /\ now = 0
    /\ fret = NoFret
    /\ NoWebhook

\* uuid4(): an id no stored proposal has
FreshId(file) ==
    LET used == DOMAIN _load_funding_proposals(file)
    IN IF used = {} THEN 1 ELSE 1 + CHOOSE m \in used : \A j \in used : j <= m

Tick ==
    /\ now < MaxHour
    /\ now' = now + 1
    /\ UNCHANGED <<funding_proposals_file, funding_proposal_max_pending, fret, webhook_vars,
                   engine_vars>>

FundingReturn(fr, file) ==
    /\ funding_proposals_file' = file
    /\ fret' = [fr EXCEPT !.at = now]
    /\ UNCHANGED <<funding_proposal_max_pending, now, webhook_vars, engine_vars>>

FundingCall(op, id, r, count) ==
    FundingReturn([NoFret EXCEPT !.op = op, !.proposal_id = id, !.error = r.error,
                                 !.exception = ExceptionOf(r.error), !.count = count],
                  r.file)

GenerateProposalUpTo(max) ==
    LET id == FreshId(funding_proposals_file)
    IN /\ id <= max
       /\ FundingCall("generate_proposal", id,
             generate_proposal(funding_proposals_file, funding_proposal_max_pending, id, now), 0)

GenerateProposal == GenerateProposalUpTo(MaxProposals)

ApproveProposal(id, approved_by, notes) ==
    FundingCall("approve_proposal", id,
        approve_proposal(funding_proposals_file, id, approved_by, notes, now), 0)

RejectProposal(id, rejected_by, reason) ==
    FundingCall("reject_proposal", id,
        reject_proposal(funding_proposals_file, id, rejected_by, reason, now), 0)

MarkExecuted(id, txid) ==
    FundingCall("mark_executed", id,
        mark_executed(funding_proposals_file, id, txid, now), 0)

ExpireOldProposals(max_age_hours) ==
    LET r == expire_old_proposals(funding_proposals_file, max_age_hours, now)
    IN FundingReturn([NoFret EXCEPT !.op = "expire_old_proposals", !.count = r.count,
                                    !.max_age_hours = max_age_hours],
                     r.file)

GetProposalStatistics ==
    FundingReturn([NoFret EXCEPT !.op = "get_proposal_statistics",
                                 !.stats = get_proposal_statistics(funding_proposals_file)],
                  funding_proposals_file)

(***************************************************************************)
(* State after construction: an empty data directory, a fresh engine       *)
(***************************************************************************)
Procs == {1, 2}

NoRequest == [destination |-> "", amount_sats |-> 0, fee_rate_sats_per_vbyte |-> None]

NoRet ==
    [op |-> "none", outcome |-> "", request |-> NoRequest, txid |-> "None",
     raised |-> FALSE, violations |-> <<>>, today_spent |-> 0, day |-> 0, streak |-> 0,
     dry_run |-> FALSE, wallet |-> "", calls |-> <<>>, summary |-> <<>>, days |-> 0, policy_args |-> NoPolicyArgs]

NoLoc ==
    [request |-> NoRequest, txid |-> "None", validated |-> FALSE, seen |-> 0, seen_day |-> 0,
     seen_calls |-> 0, recorded |-> FALSE, date |-> 0, daily_spend |-> DailySpend(0, 0, 0),
     dict |-> EmptyDict, history |-> <<>>]

NoneRecorded == [d \in Days |-> [sum |-> 0, count |-> 0]]

\* the requests handed to record_transaction
RecordRequests ==
    {r \in TransactionRequest :
        r.destination = "bc1qtest1" /\ r.fee_rate_sats_per_vbyte = None}

Init ==
    /\ today = 1
    /\ policy \in {p \in Policies : single_tx_less_than_daily(p)}
    /\ persistence \in BOOLEAN
    /\ daily_spends_file = NoFile(EmptyDict)
    /\ daily_spends_bak = NoFile(EmptyDict)
    /\ NoFunding
    /\ transaction_history_file = NoFile(<<>>)
    /\ policy_violations_file = NoFile(<<>>)
    /\ daily_spends = <<>>
    /\ ret = NoRet
    /\ recorded = [engine |-> NoneRecorded, cli |-> NoneRecorded, concurrent |-> 0]
    /\ pc = [p \in Procs |-> "idle"]
    /\ loc = [p \in Procs |-> NoLoc]

RECURSIVE SumCount(_, _)
SumCount(r, d) == IF d = 0 THEN 0 ELSE r[d].count + SumCount(r, d - 1)

Count(r) == SumCount(r, MaxDay)

AddRecorded(r, d, amount) ==
    [r EXCEPT ![d] = [sum |-> @.sum + amount, count |-> @.count + 1]]

Idle == \A p \in Procs : pc[p] = "idle"

(***************************************************************************)
(* Handlers, one caller at a time                                          *)
(***************************************************************************)
\* the clock passes midnight UTC
AdvanceDay ==
    /\ today < MaxDay
    /\ today' = today + 1
    /\ UNCHANGED <<policy, daily_spends_file, transaction_history_file,
                   policy_violations_file, persistence, daily_spends, ret, recorded, pc, loc,
                   other_vars>>

\* PolicyEngine(policy, persistence_manager): the process exits and a new one
\* builds its engine; the in-memory ledger starts empty again
PolicyEngineInit ==
    /\ Idle
    /\ daily_spends # <<>> \/ ret.op # "none"
    /\ daily_spends' = <<>>
    /\ ret' = NoRet
    /\ recorded' = IF persistence THEN recorded ELSE [recorded EXCEPT !.engine = NoneRecorded]
    /\ UNCHANGED <<today, policy, daily_spends_file, transaction_history_file,
                   policy_violations_file, persistence, pc, loc,
                   other_vars>>

\* validate_transaction that reserves the amount of a request it accepts in
\* the day's record
ValidateTransactionReserving(request) ==
    /\ Idle
    /\ LET today_spent == _get_daily_spend(persistence, daily_spends_file, daily_spends, today)
           res == validate_transaction(policy, persistence, today_spent, request)
           accepted == ~res.raised /\ res.violations = <<>>
       IN /\ res.saved # <<>> => Len(_load_list(policy_violations_file)) < MaxLogged
          /\ accepted => today_spent + request.amount_sats <= MaxCap
          /\ policy_violations_file' =
                IF res.saved = <<>> THEN policy_violations_file
                ELSE SaveAll(policy_violations_file, res.saved)
          /\ daily_spends_file' =
                IF accepted /\ persistence
                THEN save_daily_spend(daily_spends_file,
                        [load_daily_spend(daily_spends_file, today).rec
                            EXCEPT !.total_spent_sats = @ + request.amount_sats])
                ELSE daily_spends_file
          /\ daily_spends' =
                IF accepted /\ ~persistence
                THEN LET i == FindSpend(daily_spends, today, 1)
                     IN IF i = 0
                        THEN Append(daily_spends, [date |-> today,
                                                   total_spent_sats |-> request.amount_sats,
                                                   transaction_count |-> 0])
                        ELSE [daily_spends EXCEPT ![i].total_spent_sats = @ + request.amount_sats]
                ELSE daily_spends
          /\ ret' = [op |-> "validate",
                     outcome |-> IF res.raised THEN "raised" ELSE "returned",
                     request |-> request,
                     txid |-> "None", raised |-> res.raised, violations |-> res.violations,
                     today_spent |-> today_spent, day |-> today,
                     streak |-> IF ret.op = "validate" /\ ret.request = request THEN 2 ELSE 1,
                     dry_run |-> FALSE, wallet |-> "", calls |-> <<>>, summary |-> <<>>, days |-> 0, policy_args |-> NoPolicyArgs]
    /\ UNCHANGED <<today, policy, transaction_history_file, persistence, recorded, pc, loc,
                   other_vars>>

\* engine.validate_transaction(request)
ValidateTransaction(request) ==
    /\ Idle
    /\ LET today_spent == _get_daily_spend(persistence, daily_spends_file, daily_spends, today)
           res == validate_transaction(policy, persistence, today_spent, request)
       IN /\ res.saved # <<>> => Len(_load_list(policy_violations_file)) < MaxLogged
          /\ policy_violations_file' =
                IF res.saved = <<>> THEN policy_violations_file
                ELSE SaveAll(policy_violations_file, res.saved)
          /\ ret' = [op |-> "validate",
                     outcome |-> IF res.raised THEN "raised" ELSE "returned",
                     request |-> request,
                     txid |-> "None", raised |-> res.raised, violations |-> res.violations,
                     today_spent |-> today_spent, day |-> today,
                     streak |-> IF ret.op = "validate" /\ ret.request = request THEN 2 ELSE 1,
                     dry_run |-> FALSE, wallet |-> "", calls |-> <<>>, summary |-> <<>>, days |-> 0, policy_args |-> NoPolicyArgs]
    /\ UNCHANGED <<today, policy, daily_spends_file, transaction_history_file,
                   persistence, daily_spends, recorded, pc, loc,
                   other_vars>>

\* engine.record_transaction(request, txid)
RecordTransaction(request, txid) ==
    /\ Idle
    /\ Count(recorded.engine) + Count(recorded.cli) < MaxRecords
    /\ IF persistence
       THEN /\ LET l == load_daily_spend(daily_spends_file, today)
               IN daily_spends_file' = save_daily_spend(daily_spends_file, UpdateSpend(l.rec, request))
            /\ transaction_history_file' = save_transaction(transaction_history_file, request, txid)
            /\ UNCHANGED daily_spends
       ELSE /\ daily_spends' = RecordInMemory(daily_spends, today, request)
            /\ UNCHANGED <<daily_spends_file, transaction_history_file>>
    /\ recorded' = [recorded EXCEPT !.engine = AddRecorded(@, today, request.amount_sats)]
    /\ ret' = [op |-> "record", outcome |-> "returned", request |-> request,
               txid |-> txid, raised |-> FALSE, violations |-> <<>>,
               today_spent |-> 0, day |-> today, streak |-> 0,
               dry_run |-> FALSE, wallet |-> "", calls |-> <<>>, summary |-> <<>>, days |-> 0, policy_args |-> NoPolicyArgs]
    /\ UNCHANGED <<today, policy, policy_violations_file, persistence, pc, loc,
                   other_vars>>

\* engine.is_transaction_allowed(request): validate_transaction, then
\* len(violations) == 0; an exception of validate_transaction passes through
IsTransactionAllowed(request) ==
    /\ Idle
    /\ LET today_spent == _get_daily_spend(persistence, daily_spends_file, daily_spends, today)
           res == validate_transaction(policy, persistence, today_spent, request)
       IN /\ res.saved # <<>> => Len(_load_list(policy_violations_file)) < MaxLogged
          /\ policy_violations_file' =
                IF res.saved = <<>> THEN policy_violations_file
                ELSE SaveAll(policy_violations_file, res.saved)
          /\ ret' = [op |-> "allowed",
                     outcome |-> IF res.raised THEN "raised"
                                 ELSE IF Len(res.violations) = 0 THEN "True" ELSE "False",
                     request |-> request,
                     txid |-> "None", raised |-> res.raised, violations |-> res.violations,
                     today_spent |-> today_spent, day |-> today, streak |-> 0,
                     dry_run |-> FALSE, wallet |-> "", calls |-> <<>>, summary |-> <<>>, days |-> 0, policy_args |-> NoPolicyArgs]
    /\ UNCHANGED <<today, policy, daily_spends_file, transaction_history_file,
                   persistence, daily_spends, recorded, pc, loc,
                   other_vars>>

(***************************************************************************)
(* CLI (cli.py)                                                            *)
(***************************************************************************)
\* validate_bitcoin_address: the model's non-empty addresses stand for
\* well-formed mainnet addresses; the empty string is rejected
validate_bitcoin_address(address) == address # ""

\* send builds Policy(max_daily_spend_sats, max_single_tx_sats, allowed_destinations)
CliPolicy(p) == [p EXCEPT !.max_fee_rate_sats_per_vbyte = None]

\* what the wallet does for this send: create_psbt raises, broadcast_psbt
\* raises, or both succeed and broadcast_psbt returns this txid
Broadcast == {"tx1", "tx2"}
WalletOutcomes == {"psbt_error", "broadcast_error"} \cup Broadcast

\* send that looks at --dry-run only after it broadcast and recorded
send_outcome_late_dry_run(address, res, dry_run, wallet) ==
    IF ~validate_bitcoin_address(address) THEN "invalid_address"
    ELSE IF res.raised THEN "raised"
    ELSE IF res.violations # <<>> THEN "violations"
    ELSE IF wallet = "psbt_error" THEN "psbt_error"
    ELSE IF wallet = "broadcast_error" THEN "broadcast_error"
    ELSE "recorded"

\* how far send gets: each click.Abort and the dry-run exit, in code order
send_outcome(address, res, dry_run, wallet) ==
    IF ~validate_bitcoin_address(address) THEN "invalid_address"
    ELSE IF res.raised THEN "raised"
    ELSE IF res.violations # <<>> THEN "violations"
    ELSE IF wallet = "psbt_error" THEN "psbt_error"
    ELSE IF dry_run THEN "dry_run"
    ELSE IF wallet = "broadcast_error" THEN "broadcast_error"
    ELSE "recorded"

\* the calls send made on the engine and the wallet, in order, with what
\* broadcast_psbt returned and what record_transaction was given
send_calls(outcome, wallet) ==
    LET call(name, txid) == [name |-> name, txid |-> txid]
        validate == <<call("validate_transaction", "None")>>
        create == <<call("create_psbt", "None")>>
    IN CASE outcome = "invalid_address" -> <<>>
         [] outcome \in {"raised", "violations"} -> validate
         [] outcome \in {"psbt_error", "dry_run"} -> validate \o create
         [] outcome = "broadcast_error" ->
                validate \o create \o <<call("broadcast_psbt", "None")>>
         [] outcome = "recorded" ->
                validate \o create \o <<call("broadcast_psbt", wallet),
                                        call("record_transaction", wallet)>>

\* `falconer send`: one process that builds PolicyEngine(policy) with no
\* persistence manager, validates, creates and broadcasts the PSBT, records
\* into its own engine and exits
send(address, amount, fee_rate, dry_run, wallet) ==
    /\ Idle
    /\ LET request == [destination |-> address, amount_sats |-> amount,
                       fee_rate_sats_per_vbyte |-> fee_rate]
           engine_spends == <<>>
           today_spent == _get_daily_spend(FALSE, daily_spends_file, engine_spends, today)
           res == validate_transaction(CliPolicy(policy), FALSE, today_spent, request)
           outcome == send_outcome(address, res, dry_run, wallet)
           calls == send_calls(outcome, wallet)
           recording == \E i \in 1..Len(calls) : calls[i].name = "record_transaction"
       IN /\ recording => Count(recorded.engine) + Count(recorded.cli) < MaxRecords
          /\ recorded' = IF recording
                         THEN [recorded EXCEPT !.cli = AddRecorded(@, today, amount)]
                         ELSE recorded
          /\ ret' = [op |-> "send", outcome |-> outcome, request |-> request,
                     txid |-> IF recording THEN calls[Len(calls)].txid ELSE "None",
                     raised |-> res.raised,
                     violations |-> IF outcome = "invalid_address" THEN <<>> ELSE res.violations,
                     today_spent |-> today_spent, day |-> today, streak |-> 0,
                     dry_run |-> dry_run, wallet |-> wallet, calls |-> calls, summary |-> <<>>, days |-> 0, policy_args |-> NoPolicyArgs]
    /\ UNCHANGED <<today, policy, daily_spends_file, transaction_history_file,
                   policy_violations_file, persistence, daily_spends, pc, loc,
                   other_vars>>

Next ==
    \/ AdvanceDay
    \/ PolicyEngineInit
    \/ \E request \in TransactionRequest : ValidateTransaction(request)
    \/ \E request \in RecordRequests, txid \in Txids : RecordTransaction(request, txid)

Spec == Init /\ [][Next]_vars

\* The deployment the CLI runs in: the policy comes from Config, which has no
\* fee-rate cap, and the engines of the other call sites share the data directory
InitCli ==
    /\ Init
    /\ persistence
    /\ policy.max_fee_rate_sats_per_vbyte = None

NextCli ==
    \/ AdvanceDay
    \/ \E request \in RecordRequests : ValidateTransaction(request)
    \/ \E request \in RecordRequests : RecordTransaction(request, "tx1")
    \/ \E address \in Destinations, amount \in Amounts :
          send(address, amount, None, FALSE, "tx1")

SpecCli == InitCli /\ [][NextCli]_vars

\* The send command alone, with every combination of its options and of what
\* the wallet does
NextSend ==
    \/ AdvanceDay
    \/ \E address \in Destinations \cup {""}, amount \in Amounts, dry_run \in BOOLEAN,
          wallet \in WalletOutcomes : send(address, amount, None, dry_run, wallet)

SpecSend == InitCli /\ [][NextSend]_vars

\* The engine used through is_transaction_allowed
NextAllowed ==
    \/ AdvanceDay
    \/ PolicyEngineInit
    \/ \E request \in TransactionRequest : IsTransactionAllowed(request)
    \/ \E request \in RecordRequests : RecordTransaction(request, "tx1")

SpecAllowed == Init /\ [][NextAllowed]_vars

(***************************************************************************)
(* Two callers (threads or processes) over one data directory.  A caller   *)
(* validates and records; record_transaction is split where it reads and   *)
(* writes the files: load_daily_spend, then save_daily_spend (load all,    *)
(* _save_json: rename the file to .bak, write the new file), then          *)
(* save_transaction (load, _save_json).  No lock is taken anywhere.        *)
(***************************************************************************)
\* The data directory either is empty or holds what one earlier
\* record_transaction call of today left in it.
InitConc ==
    /\ today = 1
    /\ policy \in {p \in Policies : single_tx_less_than_daily(p)}
    /\ policy.max_fee_rate_sats_per_vbyte = None
    /\ policy.allowed_destinations = {}
    /\ persistence = TRUE
    /\ \/ /\ daily_spends_file = NoFile(EmptyDict)
          /\ transaction_history_file = NoFile(<<>>)
          /\ recorded = [engine |-> NoneRecorded, cli |-> NoneRecorded, concurrent |-> 0]
       \/ \E request \in RecordRequests :
             /\ daily_spends_file =
                   save_daily_spend(NoFile(EmptyDict), UpdateSpend(DailySpend(1, 0, 0), request))
             /\ transaction_history_file = save_transaction(NoFile(<<>>), request, "tx1")
             /\ recorded = [engine |-> AddRecorded(NoneRecorded, 1, request.amount_sats),
                            cli |-> NoneRecorded, concurrent |-> 0]
    /\ policy_violations_file = NoFile(<<>>)
    /\ daily_spends_bak = NoFile(EmptyDict)
    /\ NoFunding
    /\ daily_spends = <<>>
    /\ ret = NoRet
    /\ pc = [p \in Procs |-> "idle"]
    /\ loc = [p \in Procs |-> NoLoc]

\* _save_json, first half: `if file_path.exists(): file_path.rename(backup_path)`
Rename(file) == IF file.exists THEN NoFile(EmptyDict) ELSE file

\* p: violations = engine.validate_transaction(request)
CValidate(p, request) ==
    /\ pc[p] = "idle"
    /\ LET today_spent == _get_daily_spend(persistence, daily_spends_file, daily_spends, today)
           res == validate_transaction(policy, persistence, today_spent, request)
       IN /\ res.saved # <<>> => Len(_load_list(policy_violations_file)) < MaxLogged
          /\ policy_violations_file' =
                IF res.saved = <<>> THEN policy_violations_file
                ELSE SaveAll(policy_violations_file, res.saved)
          /\ loc' = [loc EXCEPT ![p] =
                        [NoLoc EXCEPT !.request = request,
                                      !.validated = ~res.raised /\ res.violations = <<>>,
                                      !.seen = today_spent,
                                      !.seen_day = today,
                                      !.seen_calls = Count(recorded.engine)]]
    /\ UNCHANGED <<today, policy, daily_spends_file, transaction_history_file,
                   persistence, daily_spends, ret, recorded, pc,
                   other_vars>>

\* p: engine.record_transaction(request, txid) begins: today, load_daily_spend,
\* the update of the loaded (or new) record
CRecordLoad(p, request, txid) ==
    /\ pc[p] = "idle"
    /\ recorded.concurrent < MaxConcRecords
    /\ LET l == load_daily_spend(daily_spends_file, today)
       IN loc' = [loc EXCEPT ![p] =
                     [NoLoc EXCEPT !.request = request,
                                   !.txid = txid,
                                   !.validated = /\ loc[p].validated
                                                 /\ ~loc[p].recorded
                                                 /\ loc[p].request = request,
                                   !.seen = loc[p].seen,
                                   !.seen_day = loc[p].seen_day,
                                   !.seen_calls = loc[p].seen_calls,
                                   !.date = today,
                                   !.daily_spend = UpdateSpend(l.rec, request)]]
    /\ recorded' = [recorded EXCEPT !.engine = AddRecorded(@, today, request.amount_sats),
                                    !.concurrent = @ + 1]
    /\ pc' = [pc EXCEPT ![p] = "save_daily_spend"]
    /\ UNCHANGED <<today, policy, daily_spends_file, transaction_history_file,
                   policy_violations_file, persistence, daily_spends, ret,
                   other_vars>>

\* save_daily_spend: daily_spends = self._load_daily_spends(); daily_spends[date] = ...
CSaveLoad(p) ==
    /\ pc[p] = "save_daily_spend"
    /\ loc' = [loc EXCEPT ![p].dict =
                  Put(_load_daily_spends(daily_spends_file), loc[p].date, loc[p].daily_spend)]
    /\ pc' = [pc EXCEPT ![p] = "spend_rename"]
    /\ UNCHANGED <<today, policy, daily_spends_file, transaction_history_file,
                   policy_violations_file, persistence, daily_spends, ret, recorded,
                   other_vars>>

CSaveRename(p) ==
    /\ pc[p] = "spend_rename"
    /\ daily_spends_file' = Rename(daily_spends_file)
    /\ pc' = [pc EXCEPT ![p] = "spend_write"]
    /\ UNCHANGED <<today, policy, transaction_history_file, policy_violations_file,
                   persistence, daily_spends, ret, recorded, loc,
                   other_vars>>

CSaveWrite(p) ==
    /\ pc[p] = "spend_write"
    /\ daily_spends_file' = File(loc[p].dict)
    /\ pc' = [pc EXCEPT ![p] = "save_transaction"]
    /\ UNCHANGED <<today, policy, transaction_history_file, policy_violations_file,
                   persistence, daily_spends, ret, recorded, loc,
                   other_vars>>

\* save_transaction: history = self._load_json(..); history.append(..); history[-1000:]
CHistLoad(p) ==
    /\ pc[p] = "save_transaction"
    /\ loc' = [loc EXCEPT ![p].history =
                  AppendBounded(_load_list(transaction_history_file),
                                TransactionRecord(loc[p].request, loc[p].txid),
                                MaxHistoryEntries)]
    /\ pc' = [pc EXCEPT ![p] = "history_write"]
    /\ UNCHANGED <<today, policy, daily_spends_file, transaction_history_file,
                   policy_violations_file, persistence, daily_spends, ret, recorded,
                   other_vars>>

\* save_transaction's _save_json: the history file is renamed to .bak and
\* written anew; record_transaction returns
CHistWrite(p) ==
    /\ pc[p] = "history_write"
    /\ transaction_history_file' = File(loc[p].history)
    /\ loc' = [loc EXCEPT ![p].recorded = TRUE, ![p].dict = EmptyDict, ![p].history = <<>>]
    /\ pc' = [pc EXCEPT ![p] = "idle"]
    /\ UNCHANGED <<today, policy, daily_spends_file, policy_violations_file,
                   persistence, daily_spends, ret, recorded,
                   other_vars>>

NextConc ==
    \/ \E p \in Procs, request \in RecordRequests : CValidate(p, request)
    \/ \E p \in Procs, request \in RecordRequests : CRecordLoad(p, request, "tx1")
    \/ \E p \in Procs : CSaveLoad(p)
    \/ \E p \in Procs : CSaveRename(p)
    \/ \E p \in Procs : CSaveWrite(p)
    \/ \E p \in Procs : CHistLoad(p)
    \/ \E p \in Procs : CHistWrite(p)

SpecConc == InitConc /\ [][NextConc]_vars

(***************************************************************************)
(* _save_json under faults: one I/O call of it raises, or the process dies *)
(***************************************************************************)
\* the I/O call of _save_json that raises: the rename to .bak, open(.., "w"),
\* json.dump part-way, or the unlink of the backup
Faults == {"none", "rename", "open", "dump", "unlink"}

\* where the process dies inside _save_json: after the rename to .bak, or
\* part-way through json.dump
CrashPoints == {"renamed", "dump"}

\* the fault hits a call that _save_json makes for these files
Applicable(file, bak, fault) ==
    CASE fault = "rename" -> file.exists
      [] fault = "unlink" -> file.exists \/ bak.exists
      [] OTHER -> TRUE

\* the except branch: `if backup_path.exists(): backup_path.rename(file_path)`
RestoreBackup(file, bak) ==
    IF bak.exists THEN [file |-> bak, bak |-> NoFile(EmptyDict)]
    ELSE [file |-> file, bak |-> bak]

\* _save_json(file_path, data): the files it leaves, and whether it raised
_save_json(file, bak, data, fault, crash) ==
    LET renamed == IF file.exists
                   THEN [file |-> NoFile(EmptyDict), bak |-> file]
                   ELSE [file |-> file, bak |-> bak]
        failed(f) == RestoreBackup(f.file, f.bak) @@ [raised |-> TRUE, crashed |-> FALSE]
        died(f) == f @@ [raised |-> FALSE, crashed |-> TRUE]
        partial == [renamed EXCEPT !.file = CorruptFile(EmptyDict)]
        written == [renamed EXCEPT !.file = File(data)]
    IN CASE fault = "rename" /\ file.exists -> failed([file |-> file, bak |-> bak])
         [] crash = "renamed" -> died(renamed)
         [] fault = "open" -> failed(renamed)
         [] crash = "dump" -> died(partial)
         [] fault = "dump" -> failed(partial)
         [] fault = "unlink" /\ written.bak.exists -> failed(written)
         [] OTHER -> [file |-> written.file, bak |-> NoFile(EmptyDict),
                      raised |-> FALSE, crashed |-> FALSE]

\* engine.record_transaction(request, txid) over a PersistenceManager whose
\* write of the daily-spend file meets the fault or the crash:
\* save_daily_spend re-raises, so save_transaction is not reached
SRecordTransaction(request, txid, fault, crash) ==
    /\ Idle
    /\ persistence
    /\ fault = "none" \/ crash = "none"
    /\ Applicable(daily_spends_file, daily_spends_bak, fault)
    /\ Count(recorded.engine) < MaxRecords
    /\ LET l == load_daily_spend(daily_spends_file, today)
           data == Put(_load_daily_spends(daily_spends_file), today, UpdateSpend(l.rec, request))
           saved == _save_json(daily_spends_file, daily_spends_bak, data, fault, crash)
           done == ~saved.raised /\ ~saved.crashed
       IN /\ daily_spends_file' = saved.file
          /\ daily_spends_bak' = saved.bak
          /\ transaction_history_file' =
                IF done THEN save_transaction(transaction_history_file, request, txid)
                ELSE transaction_history_file
          /\ recorded' = IF done
                         THEN [recorded EXCEPT !.engine = AddRecorded(@, today, request.amount_sats)]
                         ELSE recorded
          /\ ret' = [op |-> "record",
                     outcome |-> IF saved.crashed THEN "crashed"
                                 ELSE IF saved.raised THEN "raised" ELSE "returned",
                     request |-> request, txid |-> txid, raised |-> saved.raised,
                     violations |-> <<>>, today_spent |-> l.rec.total_spent_sats,
                     day |-> today, streak |-> 0,
                     dry_run |-> FALSE, wallet |-> "", calls |-> <<>>, summary |-> <<>>, days |-> 0, policy_args |-> NoPolicyArgs]
    /\ UNCHANGED <<today, policy, policy_violations_file, persistence, daily_spends, pc, loc,
                   funding_vars>>

\* One process at a time over the data directory, with a policy from Config
InitStore ==
    /\ Init
    /\ persistence
    /\ policy.max_fee_rate_sats_per_vbyte = None
    /\ policy.allowed_destinations = {}

NextStore ==
    \/ AdvanceDay
    \/ \E request \in RecordRequests : ValidateTransaction(request)
    \/ \E request \in RecordRequests, fault \in Faults :
          SRecordTransaction(request, "tx1", fault, "none")
    \/ \E request \in RecordRequests, crash \in CrashPoints :
          SRecordTransaction(request, "tx1", "none", crash)

SpecStore == InitStore /\ [][NextStore]_vars

\* a data directory the policy engine has not written to
NoEngineCall ==
    /\ today = 1
    /\ policy = [max_daily_spend_sats |-> MaxCap, max_single_tx_sats |-> MaxCap,
                 allowed_destinations |-> {}, max_fee_rate_sats_per_vbyte |-> None]
    /\ persistence = TRUE
    /\ daily_spends_file = NoFile(EmptyDict)
    /\ daily_spends_bak = NoFile(EmptyDict)
    /\ transaction_history_file = NoFile(<<>>)
    /\ policy_violations_file = NoFile(<<>>)
    /\ daily_spends = <<>>
    /\ ret = NoRet
    /\ recorded = [engine |-> NoneRecorded, cli |-> NoneRecorded, concurrent |-> 0]
    /\ pc = [p \in Procs |-> "idle"]
    /\ loc = [p \in Procs |-> NoLoc]

(***************************************************************************)
(* The approval webhook (funding/n8n_adapter.py, funding/webhook_server.py) *)
(***************************************************************************)
SignatureWindow == 300

Secrets == {"", "s1"}
Envs == {"prod", "dev"}
CurrentTimes == {1000, 1300, 1301}
Timestamps == {"", "soon", "1000", "700"}
Bodies == {"", "{", "[]",
           "{\"proposal_id\":1}",
           "{\"proposal_id\":1,\"status\":\"executed\"}",
           "{\"proposal_id\":1,\"status\":\"approved\",\"approved_by\":\"alice\"}",
           "{\"proposal_id\":1,\"status\":\"rejected\"}",
           "{\"proposal_id\":2,\"status\":\"approved\",\"approved_by\":\"alice\"}"}

\* int(timestamp): the number a string of digits stands for, ValueError otherwise
int(timestamp) ==
    CASE timestamp = "1000" -> [error |-> "None", value |-> 1000]
      [] timestamp = "700" -> [error |-> "None", value |-> 700]
      [] OTHER -> [error |-> "ValueError", value |-> 0]

Abs(x) == IF x < 0 THEN 0 - x ELSE x

\* hmac.new(key, message, hashlib.sha256).hexdigest(): one digest for each key
\* and message, no two alike
hexdigest(key, message) == [key |-> key, message |-> message]
NoSignature == [key |-> "", message |-> ""]

\* the verdict without a secret that lets every request in
no_secret_fail_open(env) == TRUE

\* verify_webhook_signature without a secret: False in "prod", True elsewhere
no_secret_verdict(env) == env # "prod"

\* verify_webhook_signature that does not look at the timestamp
verify_signature_only(cfg, payload, signature, timestamp, current_time) ==
    IF cfg.n8n_webhook_secret = "" THEN no_secret_verdict(cfg.env)
    ELSE signature = hexdigest(cfg.n8n_webhook_secret, timestamp \o payload)

verify_webhook_signature(cfg, payload, signature, timestamp, current_time) ==
    IF cfg.n8n_webhook_secret = "" THEN no_secret_verdict(cfg.env)
    ELSE LET webhook_time == int(timestamp)
         IN IF webhook_time.error # "None" THEN FALSE
            ELSE IF Abs(current_time - webhook_time.value) > SignatureWindow THEN FALSE
            ELSE signature = hexdigest(cfg.n8n_webhook_secret, timestamp \o payload)

\* json.loads(body.decode()): JSONDecodeError, or the value; for an object,
\* what approval_data.get(...) gives for the four keys the handler reads
\* (proposal_id 0 and the strings "None": the key is absent)
ApprovalData(proposal_id, status, approved_by) ==
    [error |-> "None", object |-> TRUE, proposal_id |-> proposal_id, status |-> status,
     approved_by |-> approved_by, approval_notes |-> "None"]
json_loads(body) ==
    CASE body = "[]" ->
            [error |-> "None", object |-> FALSE, proposal_id |-> 0, status |-> "None",
             approved_by |-> "unknown", approval_notes |-> "None"]
      [] body = "{\"proposal_id\":1}" -> ApprovalData(1, "None", "unknown")
      [] body = "{\"proposal_id\":1,\"status\":\"executed\"}" ->
            ApprovalData(1, "executed", "unknown")
      [] body = "{\"proposal_id\":1,\"status\":\"approved\",\"approved_by\":\"alice\"}" ->
            ApprovalData(1, "approved", "alice")
      [] body = "{\"proposal_id\":1,\"status\":\"rejected\"}" ->
            ApprovalData(1, "rejected", "unknown")
      [] body = "{\"proposal_id\":2,\"status\":\"approved\",\"approved_by\":\"alice\"}" ->
            ApprovalData(2, "approved", "alice")
      [] OTHER ->
            [error |-> "JSONDecodeError", object |-> FALSE, proposal_id |-> 0,
             status |-> "None", approved_by |-> "unknown", approval_notes |-> "None"]

\* json.loads(body.decode()) as the handler runs it: the `import json` further
\* down the same function makes json a local name of receive_approval, not
\* yet bound at this line, so the call raises UnboundLocalError, and so does
\* the `except json.JSONDecodeError` clause around it
handler_json_loads(body) == [json_loads(body) EXCEPT !.error = "UnboundLocalError"]

\* receive_approval: the status code of the response and the proposals file
\* it leaves.  The handler does not await between reading the body and its
\* return, so one event loop runs it in one piece.
Response(status_code, file) == [status_code |-> status_code, file |-> file]

\* a handler that acts on the payload without authenticating the request
receive_approval_unauthenticated(cfg, file, signature, timestamp, body, current_time, t) ==
    LET approval_data == json_loads(body)
        r == IF approval_data.status = "approved"
             THEN approve_proposal(file, approval_data.proposal_id,
                                   approval_data.approved_by, "", t)
             ELSE reject_proposal(file, approval_data.proposal_id,
                                  approval_data.approved_by, "Rejected via webhook", t)
    IN IF approval_data.error # "None" \/ ~approval_data.object THEN Response(400, file)
       ELSE IF r.error # "None" THEN Response(400, file)
       ELSE Response(200, r.file)

receive_approval(cfg, file, signature, timestamp, body, current_time, t) ==
    IF signature = NoSignature \/ timestamp = "" THEN Response(401, file)
    ELSE IF ~verify_webhook_signature(cfg, body, signature, timestamp, current_time)
         THEN Response(401, file)
    ELSE LET approval_data == handler_json_loads(body)
             l == load_funding_proposal(file, approval_data.proposal_id)
             r == IF approval_data.status = "approved"
                  THEN approve_proposal(file, approval_data.proposal_id,
                                        approval_data.approved_by, "", t)
                  ELSE reject_proposal(file, approval_data.proposal_id,
                                       approval_data.approved_by, "Rejected via webhook", t)
         IN IF approval_data.error = "JSONDecodeError" THEN Response(400, file)
            ELSE IF approval_data.error # "None" THEN Response(500, file)
            ELSE IF ~approval_data.object THEN Response(500, file)
            ELSE IF approval_data.proposal_id = 0 \/ approval_data.status = "None"
                 THEN Response(400, file)
            ELSE IF approval_data.status \notin {"approved", "rejected"}
                 THEN Response(400, file)
            ELSE IF ~l.found THEN Response(404, file)
            ELSE IF l.proposal.status # "pending" THEN Response(400, file)
            ELSE IF r.error # "None" THEN Response(500, file)
            ELSE Response(200, r.file)

\* the signatures a request for that timestamp and body may carry: none, the
\* right one, one made with another secret, one made for another timestamp
Signatures(timestamp, body) ==
    {NoSignature, hexdigest("s1", timestamp \o body), hexdigest("s2", timestamp \o body),
     hexdigest("s1", "1000" \o body)}

Webhook(w, file) ==
    /\ wret' = w
    /\ funding_proposals_file' = file
    /\ UNCHANGED <<funding_proposal_max_pending, now, fret, fproc, config, agent, engine_vars>>

VerifyWebhookSignature(payload, signature, timestamp, current_time) ==
    Webhook([op |-> "verify_webhook_signature", signature |-> signature,
             timestamp |-> timestamp, body |-> payload, current_time |-> current_time,
             verified |-> verify_webhook_signature(config, payload, signature, timestamp,
                                                   current_time),
             status_code |-> 0],
            funding_proposals_file)

ReceiveApproval(signature, timestamp, body, current_time) ==
    LET r == receive_approval(config, funding_proposals_file, signature, timestamp, body,
                              current_time, now)
    IN Webhook([op |-> "receive_approval", signature |-> signature,
                timestamp |-> timestamp, body |-> body, current_time |-> current_time,
                verified |-> FALSE, status_code |-> r.status_code],
               r.file)

InitWebhook ==
    /\ NoEngineCall
    /\ funding_proposals_file = NoFile(EmptyDict)
    /\ funding_proposal_max_pending = 1
    /\ now = 0
    /\ fret = NoFret
    /\ fproc = [p \in FProcs |-> NoProc]
    /\ config \in [n8n_webhook_secret : Secrets, env : Envs]
    /\ wret = NoWret
    /\ agent = NoAgent

NextWebhook ==
    \/ GenerateProposalUpTo(1)
    \/ \E timestamp \in Timestamps, body \in Bodies, current_time \in CurrentTimes :
          \E signature \in Signatures(timestamp, body) :
             VerifyWebhookSignature(body, signature, timestamp, current_time)
    \/ \E timestamp \in Timestamps, body \in Bodies, current_time \in CurrentTimes :
          \E signature \in Signatures(timestamp, body) :
             ReceiveApproval(signature, timestamp, body, current_time)

SpecWebhook == InitWebhook /\ [][NextWebhook]_vars

(***************************************************************************)
(* The two bounded logs of the store, filled by direct calls of            *)
(* save_transaction and save_policy_violation.  The n-th transaction saved *)
(* has amount n and the n-th violation saved is stamped n, so that every   *)
(* entry can be told from every other; the violations are saved once the   *)
(* transactions are.                                                       *)
(***************************************************************************)
\* violation_data["timestamp"] = datetime.utcnow().isoformat()
Stamped(violation, t) ==
    [violation_type |-> violation.violation_type, severity |-> violation.severity,
     timestamp |-> t]

SaveTransaction(request, txid) ==
    /\ transaction_history_file' = save_transaction(transaction_history_file, request, txid)
    /\ ret' = [NoRet EXCEPT !.op = "save_transaction", !.request = request, !.txid = txid]
    /\ UNCHANGED <<today, policy, daily_spends_file, policy_violations_file, persistence,
                   daily_spends, recorded, pc, loc, other_vars>>

SavePolicyViolation(violation, t) ==
    /\ policy_violations_file' =
          save_policy_violation(policy_violations_file, Stamped(violation, t))
    /\ ret' = [NoRet EXCEPT !.op = "save_policy_violation",
                            !.violations = <<Stamped(violation, t)>>]
    /\ UNCHANGED <<today, policy, daily_spends_file, transaction_history_file, persistence,
                   daily_spends, recorded, pc, loc, other_vars>>

\* the amount of the next transaction, the stamp of the next violation
NextAmount ==
    LET history == _load_list(transaction_history_file)
    IN IF history = <<>> THEN 1 ELSE history[Len(history)].amount_sats + 1
NextStamp ==
    LET violations == _load_list(policy_violations_file)
    IN IF violations = <<>> THEN 1 ELSE violations[Len(violations)].timestamp + 1

NextLog ==
    \/ /\ NextAmount <= MaxAppends
       /\ SaveTransaction([destination |-> "bc1qallowed", amount_sats |-> NextAmount,
                           fee_rate_sats_per_vbyte |-> None], "tx1")
    \/ /\ NextAmount > MaxAppends
       /\ NextStamp <= MaxViolationAppends
       /\ SavePolicyViolation(PolicyViolation("amount_limit_exceeded", "error"), NextStamp)

\* The proposal manager over an empty data directory
InitFunding ==
    /\ NoEngineCall
    /\ funding_proposals_file = NoFile(EmptyDict)
    /\ funding_proposal_max_pending \in {1, 2}
    /\ now = 0
    /\ fret = NoFret
    /\ NoWebhook

NextFunding ==
    \/ Tick
    \/ GenerateProposal
    \/ \E id \in ProposalIds, approved_by \in Humans, notes \in Notes :
          ApproveProposal(id, approved_by, notes)
    \/ \E id \in ProposalIds, rejected_by \in Humans, reason \in Notes :
          RejectProposal(id, rejected_by, reason)
    \/ \E id \in ProposalIds : MarkExecuted(id, "tx1")
    \/ \E max_age_hours \in MaxAgeHours : ExpireOldProposals(max_age_hours)
    \/ GetProposalStatistics

SpecFunding == InitFunding /\ [][NextFunding]_vars

InitLog == NoEngineCall /\ NoFunding
SpecLog == InitLog /\ [][NextLog]_vars

(***************************************************************************)
(* The proposal manager over a long proposals file: the ceiling on pending *)
(* proposals is above ListLimit, the proposals are generated within the    *)
(* first two hours (the clock may move on after the first one), and the    *)
(* other operations are called once more than LoadLimit proposals are      *)
(* stored.                                                                 *)
(***************************************************************************)
Stored == Cardinality(DOMAIN _load_funding_proposals(funding_proposals_file))

InitMany ==
    /\ NoEngineCall
    /\ funding_proposals_file = NoFile(EmptyDict)
    /\ funding_proposal_max_pending \in {ListLimit + 1, MaxStored + 1}
    /\ now = 0
    /\ fret = NoFret
    /\ NoWebhook

NextMany ==
    \/ now <= 1 /\ GenerateProposalUpTo(MaxStored)
    \/ (Stored = 1 \/ Stored > LoadLimit) /\ Tick
    \/ Stored > LoadLimit /\ \E id \in {1, LoadLimit + 1} : ApproveProposal(id, "alice", "")
    \/ Stored > LoadLimit /\ \E id \in {1, LoadLimit + 1} : RejectProposal(id, "alice", "no")
    \/ Stored > LoadLimit /\ ExpireOldProposals(1)
    \/ Stored > LoadLimit /\ GetProposalStatistics

SpecMany == InitMany /\ [][NextMany]_vars

(***************************************************************************)
(* Two callers of the proposal manager on one data directory.  A call is   *)
(* split where it reads the proposals file, where save_funding_proposal    *)
(* reads it again, and where _save_json writes it.                         *)
(***************************************************************************)
\* the first of the loaded proposals still to be saved, in the order of the
\* list load_funding_proposals returned
FirstTodo(todo) ==
    CHOOSE q \in todo : \A r \in todo :
        \/ r = q
        \/ q.created_at > r.created_at
        \/ q.created_at = r.created_at /\ q.proposal_id < r.proposal_id

FLocal(p, rec) ==
    /\ fproc' = [fproc EXCEPT ![p] = rec]
    /\ UNCHANGED <<funding_proposals_file, funding_proposal_max_pending, now, fret,
                   config, wret, agent, engine_vars>>

\* the call ends before it saves anything
FDone(op, error) == [NoProc EXCEPT !.op = op, !.error = error]

\* the call goes on into save_funding_proposal(proposal)
FSave(op, proposal, todo, count) ==
    [NoProc EXCEPT !.pc = "save", !.op = op, !.proposal = proposal, !.todo = todo,
                   !.count = count]

\* approve_proposal up to its call of save_funding_proposal
CApproveLoad(p, id, approved_by, notes) ==
    /\ fproc[p].pc = "idle"
    /\ LET l == load_funding_proposal(funding_proposals_file, id)
       IN FLocal(p, IF ~l.found THEN FDone("approve_proposal", "not found")
                    ELSE IF l.proposal.status # "pending"
                         THEN FDone("approve_proposal", "is not in pending status")
                    ELSE FSave("approve_proposal",
                               [l.proposal EXCEPT !.status = "approved", !.approved_at = now,
                                    !.approved_by = approved_by,
                                    !.approval_notes = IF notes # "" THEN notes ELSE @],
                               {}, 0))

\* reject_proposal up to its call of save_funding_proposal
CRejectLoad(p, id, rejected_by, reason) ==
    /\ fproc[p].pc = "idle"
    /\ LET l == load_funding_proposal(funding_proposals_file, id)
       IN FLocal(p, IF ~l.found THEN FDone("reject_proposal", "not found")
                    ELSE IF l.proposal.status # "pending"
                         THEN FDone("reject_proposal", "is not in pending status")
                    ELSE FSave("reject_proposal",
                               [l.proposal EXCEPT !.status = "rejected", !.rejected_at = now,
                                    !.rejected_by = rejected_by, !.approval_notes = reason],
                               {}, 0))

\* expire_old_proposals: the cutoff, the list of pending proposals, and the
\* loop up to its first save_funding_proposal
CExpireLoad(p, max_age_hours) ==
    /\ fproc[p].pc = "idle"
    /\ LET proposals == _load_funding_proposals(funding_proposals_file)
           pending == load_funding_proposals(funding_proposals_file, "pending", LoadLimit)
           old == {proposals[id] : id \in {i \in pending :
                                      proposals[i].created_at < now - max_age_hours}}
       IN FLocal(p, IF old = {} THEN FDone("expire_old_proposals", "None")
                    ELSE FSave("expire_old_proposals",
                               [FirstTodo(old) EXCEPT !.status = "expired"],
                               old \ {FirstTodo(old)}, 1))

\* save_funding_proposal: proposals = self._load_funding_proposals();
\* proposals[proposal.proposal_id] = proposal.model_dump()
CSaveProposalLoad(p) ==
    /\ fproc[p].pc = "save"
    /\ FLocal(p, [fproc[p] EXCEPT !.pc = "write",
                     !.proposals = Put(_load_funding_proposals(funding_proposals_file),
                                       fproc[p].proposal.proposal_id, fproc[p].proposal)])

\* save_funding_proposal: self._save_json(self.funding_proposals_file, proposals),
\* and on to the next proposal of the loop of expire_old_proposals
CSaveProposalWrite(p) ==
    /\ fproc[p].pc = "write"
    /\ funding_proposals_file' = File(fproc[p].proposals)
    /\ fproc' = [fproc EXCEPT ![p] =
          IF fproc[p].todo = {}
          THEN [NoProc EXCEPT !.op = fproc[p].op, !.count = fproc[p].count,
                              !.proposal = fproc[p].proposal]
          ELSE FSave(fproc[p].op, [FirstTodo(fproc[p].todo) EXCEPT !.status = "expired"],
                     fproc[p].todo \ {FirstTodo(fproc[p].todo)}, fproc[p].count + 1)]
    /\ UNCHANGED <<funding_proposal_max_pending, now, fret, config, wret, agent, engine_vars>>

FIdle == \A p \in FProcs : fproc[p].pc = "idle"

InitFundingConc ==
    /\ NoEngineCall
    /\ funding_proposals_file = NoFile(EmptyDict)
    /\ funding_proposal_max_pending = 2
    /\ now = 0
    /\ fret = NoFret
    /\ NoWebhook

NextFundingConc ==
    \/ Tick
    \/ FIdle /\ GenerateProposal
    \/ \E p \in FProcs, id \in ProposalIds : CApproveLoad(p, id, "alice", "")
    \/ \E p \in FProcs, id \in ProposalIds : CRejectLoad(p, id, "alice", "no")
    \/ \E p \in FProcs : CExpireLoad(p, 1)
    \/ \E p \in FProcs : CSaveProposalLoad(p)
    \/ \E p \in FProcs : CSaveProposalWrite(p)

SpecFundingConc == InitFundingConc /\ [][NextFundingConc]_vars

(***************************************************************************)
(* Policy construction (policy/schema.py)                                  *)
(***************************************************************************)
\* policy = Policy(...); PolicyEngine(policy, persistence): a rejected Policy
\* leaves the running engine as it is, an accepted one starts a new engine
ConstructPolicy(d, s) ==
    /\ Idle
    /\ LET res == Policy(d, s, policy.allowed_destinations, policy.max_fee_rate_sats_per_vbyte)
       IN /\ policy' = IF res.raised THEN policy ELSE res.policy
          /\ daily_spends' = IF res.raised THEN daily_spends ELSE <<>>
          /\ recorded' = IF res.raised \/ persistence THEN recorded
                         ELSE [recorded EXCEPT !.engine = NoneRecorded]
          /\ ret' = [NoRet EXCEPT !.op = "Policy",
                                  !.outcome = IF res.raised THEN "raised" ELSE "returned",
                                  !.raised = res.raised,
                                  !.policy_args = [max_daily_spend_sats |-> d,
                                                   max_single_tx_sats |-> s]]
    /\ UNCHANGED <<today, daily_spends_file, transaction_history_file,
                   policy_violations_file, persistence, pc, loc, other_vars>>

\* the first policy allows every destination and has no fee cap
InitPolicy ==
    /\ Init
    /\ policy.allowed_destinations = {}
    /\ policy.max_fee_rate_sats_per_vbyte = None

NextPolicy ==
    \/ \E d \in PolicyCaps, s \in PolicyCaps : ConstructPolicy(d, s)
    \/ \E request \in RecordRequests : ValidateTransaction(request)
    \/ \E request \in RecordRequests : RecordTransaction(request, "tx1")

SpecPolicy == InitPolicy /\ [][NextPolicy]_vars

(***************************************************************************)
(* One caller that validates, then records (cli.py send, ai/agent.py)      *)
(***************************************************************************)
\* record_transaction(request, txid) called for the request that the last
\* validate_transaction call returned an empty list for
RecordValidated(request, txid) ==
    /\ ret.op = "validate"
    /\ ret.request = request
    /\ ~ret.raised
    /\ ret.violations = <<>>
    /\ RecordTransaction(request, txid)

NextValidated ==
    \/ AdvanceDay
    \/ PolicyEngineInit
    \/ \E request \in RecordRequests : ValidateTransaction(request)
    \/ \E request \in RecordRequests : RecordValidated(request, "tx1")

SpecValidated == Init /\ [][NextValidated]_vars

(***************************************************************************)
(* Spend summary and cleanup (engine.py, persistence.py)                   *)
(***************************************************************************)
SummaryDays == {1, 2}
CleanupDays == {0, 1}

\* datetime.now().date() against datetime.utcnow().date(): the host's local
\* date is the UTC date, the day before it or the day after it
LocalOffsets == {-1, 0, 1}

\* load_daily_spends(days): for i in range(days), the record of
\* datetime.now().date() - i when the file has one
RECURSIVE load_daily_spends_from(_, _, _, _)
load_daily_spends_from(dict, days, local_today, i) ==
    IF i >= days THEN <<>>
    ELSE (IF (local_today - i) \in DOMAIN dict THEN <<dict[local_today - i]>> ELSE <<>>)
         \o load_daily_spends_from(dict, days, local_today, i + 1)

load_daily_spends(file, days, local_today) ==
    load_daily_spends_from(_load_daily_spends(file), days, local_today, 0)

\* get_daily_spend_summary(days): the persistence manager's load_daily_spends,
\* or the in-memory list filtered by spend.date >= utcnow().date() - days
get_daily_spend_summary(pers, file, spends, days, utc_today, local_today) ==
    IF pers
    THEN load_daily_spends(file, days, local_today)
    ELSE SelectSeq(spends, LAMBDA spend : spend.date >= utc_today - days)

\* cleanup_old_data(days): the records with date >= datetime.now().date() - days
cleanup_old_data(file, days, local_today) ==
    LET daily_spends_data == _load_daily_spends(file)
        cutoff_date == local_today - days
    IN File([d \in {k \in DOMAIN daily_spends_data : k >= cutoff_date} |->
                daily_spends_data[d]])

GetDailySpendSummary(days, local_today) ==
    /\ Idle
    /\ ret' = [NoRet EXCEPT !.op = "summary", !.outcome = "returned", !.day = today,
                            !.days = days,
                            !.summary = get_daily_spend_summary(persistence, daily_spends_file,
                                            daily_spends, days, today, local_today)]
    /\ UNCHANGED <<today, policy, daily_spends_file, transaction_history_file,
                   policy_violations_file, persistence, daily_spends, recorded, pc, loc,
                   other_vars>>

CleanupOldData(days, local_today) ==
    /\ Idle
    /\ persistence
    /\ daily_spends_file' = cleanup_old_data(daily_spends_file, days, local_today)
    /\ ret' = [NoRet EXCEPT !.op = "cleanup", !.outcome = "returned", !.day = today,
                            !.days = days]
    /\ UNCHANGED <<today, policy, transaction_history_file,
                   policy_violations_file, persistence, daily_spends, recorded, pc, loc,
                   other_vars>>

NextSummary ==
    \/ AdvanceDay
    \/ \E request \in RecordRequests, txid \in Txids : RecordTransaction(request, txid)
    \/ \E days \in SummaryDays, o \in LocalOffsets : GetDailySpendSummary(days, today + o)
    \/ \E days \in CleanupDays, o \in LocalOffsets : CleanupOldData(days, today + o)

SpecSummary == Init /\ [][NextSummary]_vars

(***************************************************************************)
(* The agent's funding request (ai/agent.py) next to an operator's CLI     *)
(***************************************************************************)
\* response.get("workflow_id") of send_proposal: absent, or an id
WorkflowIds == {"None", "wf1"}

\* _generate_and_send_funding_proposal up to `await send_proposal(proposal)`:
\* generate_proposal stores the proposal and returns the object that the
\* coroutine keeps while the request to n8n is in flight
AgentGenerate ==
    /\ fproc["loop"].pc = "idle"
    /\ LET id == FreshId(funding_proposals_file)
           r == generate_proposal(funding_proposals_file, funding_proposal_max_pending, id, now)
       IN /\ id <= MaxProposals
          /\ funding_proposals_file' = r.file
          /\ fproc' = [fproc EXCEPT !["loop"] =
                IF r.error # "None" THEN FDone("generate_proposal", r.error)
                ELSE [NoProc EXCEPT !.pc = "send", !.op = "send_proposal",
                                    !.proposal = FundingProposal(id, now)]]
    /\ UNCHANGED <<funding_proposal_max_pending, now, fret, config, wret, agent, engine_vars>>

\* send_proposal returns: with a workflow id the coroutine sets it on its
\* proposal object and goes on into save_funding_proposal(proposal)
AgentSendReturns(workflow_id) ==
    /\ fproc["loop"].pc = "send"
    /\ FLocal("loop",
          IF workflow_id = "None" THEN FDone("send_proposal", "None")
          ELSE FSave("save_workflow_id",
                     [fproc["loop"].proposal EXCEPT !.n8n_workflow_id = workflow_id], {}, 0))

InitAgent ==
    /\ NoEngineCall
    /\ funding_proposals_file = NoFile(EmptyDict)
    /\ funding_proposal_max_pending = 2
    /\ now = 0
    /\ fret = NoFret
    /\ NoWebhook

NextAgent ==
    \/ Tick
    \/ AgentGenerate
    \/ \E workflow_id \in WorkflowIds : AgentSendReturns(workflow_id)
    \/ CSaveProposalLoad("loop")
    \/ CSaveProposalWrite("loop")
    \/ \E id \in ProposalIds : ApproveProposal(id, "alice", "")
    \/ \E id \in ProposalIds : RejectProposal(id, "alice", "no")

SpecAgent == InitAgent /\ [][NextAgent]_vars

(***************************************************************************)
(* The autonomous loop (ai/agent.py)                                       *)
(***************************************************************************)
AgentStep(a) ==
    /\ agent' = a
    /\ UNCHANGED <<funding_proposals_file, funding_proposal_max_pending, now, fret,
                   fproc, config, wret, engine_vars>>

\* start_autonomous_mode: self.state.is_active = True, then the while loop
StartAutonomousMode ==
    /\ agent.pc = "new"
    /\ AgentStep([agent EXCEPT !.is_active = TRUE, !.pc = "while"])

\* stop_autonomous_mode: self.state.is_active = False
StopAutonomousMode ==
    /\ agent.pc # "new"
    /\ agent.is_active
    /\ AgentStep([agent EXCEPT !.is_active = FALSE])

\* a loop whose condition does not read is_active
WhileTrue ==
    /\ agent.pc = "while"
    /\ agent.cycles < MaxCycles
    /\ AgentStep([agent EXCEPT !.pc = "cycle", !.cycles = @ + 1])

\* while self.state.is_active: into the next _autonomous_cycle, or return
WhileIsActive ==
    /\ agent.pc = "while"
    /\ agent.is_active => agent.cycles < MaxCycles
    /\ AgentStep(IF agent.is_active
                 THEN [agent EXCEPT !.pc = "cycle", !.cycles = @ + 1]
                 ELSE [agent EXCEPT !.pc = "returned"])

\* await self._autonomous_cycle() returns; await asyncio.sleep(300) begins
CycleReturns ==
    /\ agent.pc = "cycle"
    /\ AgentStep([agent EXCEPT !.pc = "sleep", !.slept = 300])

\* _autonomous_cycle raises an Exception; the handler logs it and begins
\* await asyncio.sleep(60)
CycleRaises ==
    /\ agent.pc = "cycle"
    /\ AgentStep([agent EXCEPT !.pc = "sleep", !.slept = 60, !.failures = @ + 1])

\* the sleep is over: back to the loop's condition
SleepEnds ==
    /\ agent.pc = "sleep"
    /\ AgentStep([agent EXCEPT !.pc = "while"])

InitLoop ==
    /\ NoEngineCall
    /\ NoFunding

\* the steps of the coroutine that the event loop runs
LoopStep ==
    \/ WhileIsActive
    \/ CycleReturns
    \/ CycleRaises
    \/ SleepEnds

NextLoop ==
    \/ StartAutonomousMode
    \/ StopAutonomousMode
    \/ WhileIsActive
    \/ CycleReturns
    \/ CycleRaises
    \/ SleepEnds

SpecLoop == InitLoop /\ [][NextLoop]_vars

\* the event loop resumes the coroutine: a sleep ends after its 60 or 300
\* seconds and a decision cycle returns or raises
SpecLoopFair == InitLoop /\ [][NextLoop]_vars /\ WF_vars(LoopStep)

(***************************************************************************)
(* Properties                                                              *)
(***************************************************************************)
\* the engine's ledger: the file with a persistence manager, the list without
LedgerHas(d) ==
    IF persistence
    THEN d \in DOMAIN _load_daily_spends(daily_spends_file)
    ELSE FindSpend(daily_spends, d, 1) # 0

LedgerRec(d) ==
    IF persistence
    THEN _load_daily_spends(daily_spends_file)[d]
    ELSE daily_spends[FindSpend(daily_spends, d, 1)]

Returned(t, sev) ==
    \E i \in 1..Len(ret.violations) :
        ret.violations[i] = PolicyViolation(t, sev)

NumberOf(t) ==
    Cardinality({i \in 1..Len(ret.violations) : ret.violations[i].violation_type = t})

Min(a, b) == IF a < b THEN a ELSE b

\* a step that is a validate_transaction call
ValidateStep ==
    /\ ret'.op = "validate"
    /\ ret' # ret \/ policy_violations_file' # policy_violations_file

\* C1: once concurrent record_transaction calls for one date have all returned,
\* the persisted DailySpend of that date holds the sum of their amounts and
\* their number (no lost update).
C1_NoLostUpdate ==
    Idle =>
        \A d \in Days :
            recorded.engine[d].count > 0 =>
                /\ LedgerHas(d)
                /\ LedgerRec(d).total_spent_sats = recorded.engine[d].sum
                /\ LedgerRec(d).transaction_count = recorded.engine[d].count

\* C2: with calls made one after another, a date has a DailySpend exactly when
\* a call was made on it, and then total_spent_sats is the sum of the recorded
\* amounts and transaction_count the number of calls.
C2_SequentialTotals ==
    \A d \in Days :
        /\ LedgerHas(d) <=> recorded.engine[d].count > 0
        /\ LedgerHas(d) =>
              /\ LedgerRec(d).total_spent_sats = recorded.engine[d].sum
              /\ LedgerRec(d).transaction_count = recorded.engine[d].count

C2_Witness ==
    /\ ret.op = "record"
    /\ recorded.engine[today].count = 2
    /\ LedgerHas(today)
    /\ LedgerRec(today).total_spent_sats = recorded.engine[today].sum

\* C3: validate_transaction returns daily_limit_exceeded (error) if and only if
\* the total recorded so far today plus the request's amount is above
\* max_daily_spend_sats.
C3_DailyLimitIff ==
    ret.op = "validate" =>
        (Returned("daily_limit_exceeded", "error")
            <=> recorded.engine[ret.day].sum + ret.request.amount_sats
                    > policy.max_daily_spend_sats)

\* C4: two callers that validated without violation against the same ledger
\* state and then both recorded leave a daily total that is above
\* max_daily_spend_sats by at most one request's amount.
C4_Pair(p, q) ==
    /\ p # q
    /\ Idle
    /\ loc[p].recorded /\ loc[q].recorded
    /\ loc[p].validated /\ loc[q].validated
    /\ loc[p].seen = loc[q].seen
    /\ loc[p].seen_day = loc[q].seen_day
    /\ loc[p].seen_calls = loc[q].seen_calls

C4_OvershootAtMostOneRequest ==
    \A p, q \in Procs :
        C4_Pair(p, q) =>
            \A d \in {loc[p].date, loc[q].date} :
                LedgerRec(d).total_spent_sats - policy.max_daily_spend_sats
                        <= Min(loc[p].request.amount_sats, loc[q].request.amount_sats)

C4_Witness ==
    \E p, q \in Procs :
        /\ C4_Pair(p, q)
        /\ loc[p].seen > 0
        /\ LedgerRec(loc[p].date).total_spent_sats > policy.max_daily_spend_sats

\* C5: whenever validate_transaction runs, in an engine over the data directory
\* or in the CLI send command, the daily total it reads is the sum of the
\* amounts recorded earlier that day, by whichever process.
C5_CountedAcrossProcesses ==
    (ret.op \in {"validate", "send"} /\ ret.outcome # "invalid_address") =>
        ret.today_spent = recorded.engine[ret.day].sum + recorded.cli[ret.day].sum

\* C6: validate_transaction never raises, with or without a persistence manager.
C6_NeverRaises ==
    ret.op = "validate" => ~ret.raised

\* C7: validate_transaction returns exactly one amount_limit_exceeded (error)
\* when amount_sats > max_single_tx_sats and none otherwise.
C7_AmountLimit ==
    ret.op = "validate" =>
        IF ret.request.amount_sats > policy.max_single_tx_sats
        THEN NumberOf("amount_limit_exceeded") = 1
             /\ Returned("amount_limit_exceeded", "error")
        ELSE NumberOf("amount_limit_exceeded") = 0

\* C8 as stated: validate_transaction changes no DailySpend record and no
\* transaction history, and a call that repeats the call before it (same
\* request, nothing recorded in between) yields the same violations in the
\* same order.
C8_Frame ==
    /\ daily_spends_file' = daily_spends_file
    /\ daily_spends' = daily_spends
    /\ transaction_history_file' = transaction_history_file

C8_SameResult ==
    /\ ret'.raised = ret.raised
    /\ ret'.violations = ret.violations

C8_PureAcrossCalls ==
    [][ValidateStep =>
          /\ C8_Frame
          /\ ret'.streak = 2 => C8_SameResult]_vars

\* C8 as amended: the same, for a repeated call on the same UTC date.
C8_PureWithinDay ==
    [][ValidateStep =>
          /\ C8_Frame
          /\ (ret'.streak = 2 /\ ret.day = today) => C8_SameResult]_vars

C8_Witness ==
    /\ ret.op = "validate"
    /\ ret.streak = 2
    /\ ret.day = today
    /\ ret.violations # <<>>
    /\ recorded.engine[today].count > 0

\* C9: every call reports what the four checks find, all four, in the order
\* amount, daily, destination, fee-rate, and with a persistence manager the
\* violation log grows by exactly those entries in that order.
C9_Expected(r) ==
    (IF r.amount_sats > policy.max_single_tx_sats
     THEN <<PolicyViolation("amount_limit_exceeded", "error")>> ELSE <<>>)
    \o (IF recorded.engine[today].sum + r.amount_sats > policy.max_daily_spend_sats
        THEN <<PolicyViolation("daily_limit_exceeded", "error")>> ELSE <<>>)
    \o (IF policy.allowed_destinations # {} /\ r.destination \notin policy.allowed_destinations
        THEN <<PolicyViolation("destination_not_allowed", "error")>> ELSE <<>>)
    \o (IF /\ policy.max_fee_rate_sats_per_vbyte \notin {None, 0}
           /\ r.fee_rate_sats_per_vbyte \notin {None, 0}
           /\ r.fee_rate_sats_per_vbyte > policy.max_fee_rate_sats_per_vbyte
        THEN <<PolicyViolation("fee_rate_exceeded", "warning")>> ELSE <<>>)

C9_AllChecksInOrder ==
    [][ValidateStep =>
          /\ ~ret'.raised
          /\ ret'.violations = C9_Expected(ret'.request)
          /\ persistence =>
                _load_list(policy_violations_file')
                    = _load_list(policy_violations_file) \o ret'.violations]_vars

\* C10: validate_transaction returns destination_not_allowed (error) if and
\* only if allowed_destinations is non-empty and the destination is not in it.
C10_DestinationIff ==
    ret.op = "validate" =>
        (Returned("destination_not_allowed", "error")
            <=> /\ policy.allowed_destinations # {}
                /\ ret.request.destination \notin policy.allowed_destinations)

\* C11: validate_transaction returns fee_rate_exceeded (warning) if and only
\* if a fee-rate cap is configured, the request carries a fee rate and that
\* fee rate is above the cap.
C11_FeeRateIff ==
    ret.op = "validate" =>
        (Returned("fee_rate_exceeded", "warning")
            <=> /\ policy.max_fee_rate_sats_per_vbyte # None
                /\ ret.request.fee_rate_sats_per_vbyte # None
                /\ ret.request.fee_rate_sats_per_vbyte > policy.max_fee_rate_sats_per_vbyte)

\* a step that is an is_transaction_allowed call
AllowedStep ==
    /\ ret'.op = "allowed"
    /\ ret' # ret \/ policy_violations_file' # policy_violations_file

\* C12: is_transaction_allowed returns True exactly when the four checks find
\* nothing, and False for a request with any violation, the fee-rate warning
\* included.
C12_AllowedIffNoViolation ==
    [][AllowedStep =>
          /\ ret'.outcome \in {"True", "False"}
          /\ ret'.outcome = "True" <=> C9_Expected(ret'.request) = <<>>]_vars

\* a step that is a run of the send command
SendStep ==
    /\ ret'.op = "send"
    /\ ret' # ret \/ recorded' # recorded

Called(r, name) == \E i \in 1..Len(r.calls) : r.calls[i].name = name

\* C13: send calls record_transaction only as its last call, right after a
\* broadcast_psbt that returned a txid, with that txid and after a validation
\* without violations; with a violation nothing is broadcast, and with a
\* violation, a failed PSBT creation or broadcast, or --dry-run nothing is
\* recorded.
C13_RecordOnlyAfterBroadcast ==
    [][SendStep =>
          LET r == ret'
              n == Len(r.calls)
          IN /\ Called(r, "record_transaction") <=> recorded'.cli # recorded.cli
             /\ Called(r, "record_transaction") =>
                   /\ n = 4
                   /\ r.calls[1].name = "validate_transaction"
                   /\ r.violations = <<>> /\ ~r.raised
                   /\ r.calls[3].name = "broadcast_psbt"
                   /\ r.calls[3].txid \in Broadcast
                   /\ r.calls[4] = [name |-> "record_transaction", txid |-> r.calls[3].txid]
                   /\ r.txid = r.calls[3].txid
             /\ r.violations # <<>> => ~Called(r, "broadcast_psbt")
             /\ (\/ r.violations # <<>>
                 \/ r.wallet \notin Broadcast
                 \/ r.dry_run) =>
                   /\ ~Called(r, "record_transaction")
                   /\ \A i \in 1..n : r.calls[i].txid = "None"]_vars

C13_Witness ==
    /\ ret.op = "send"
    /\ Called(ret, "record_transaction")
    /\ ret.txid = "tx2"
    /\ recorded.cli[today].count = 2

\* a DailySpend for today has been committed: it was there at the start, or a
\* caller's save_daily_spend has returned
CommittedToday ==
    \/ recorded.engine[today].count > recorded.concurrent
    \/ \E q \in Procs : pc[q] \in {"save_transaction", "history_write"} \/ loc[q].recorded

\* C15: once a DailySpend for today has been committed, the total that
\* validate_transaction reads while another caller writes the file is a
\* committed one, never the 0 of a missing ledger.
C15_ReadSeesCommitted ==
    \A p \in Procs :
        (pc[p] = "idle" /\ CommittedToday) =>
            _get_daily_spend(persistence, daily_spends_file, daily_spends, today) > 0

\* C18: the persisted total_spent_sats and transaction_count of a date never
\* decrease: once the interleaved record_transaction calls have returned, the
\* date's record is still there and holds at least what each of them wrote.
C18_TotalsNeverDecrease ==
    Idle =>
        \A p \in Procs :
            loc[p].recorded =>
                /\ LedgerHas(loc[p].date)
                /\ LedgerRec(loc[p].date).total_spent_sats
                        >= loc[p].daily_spend.total_spent_sats
                /\ LedgerRec(loc[p].date).transaction_count
                        >= loc[p].daily_spend.transaction_count

\* C14: a write of the ledger is all-or-nothing: whatever fault or crash a
\* write met, the next load returns the committed content, that is, for every
\* date the totals of the record_transaction calls that returned.
C14_AllOrNothing ==
    \A d \in Days :
        recorded.engine[d].count > 0 =>
            /\ LedgerHas(d)
            /\ LedgerRec(d).total_spent_sats = recorded.engine[d].sum
            /\ LedgerRec(d).transaction_count = recorded.engine[d].count

\* a step that is a validate_transaction or record_transaction call that came
\* back to its caller
EngineCallStep ==
    /\ ret'.op \in {"validate", "record"}
    /\ ret'.outcome # "crashed"
    /\ \/ ret' # ret
       \/ daily_spends_file' # daily_spends_file
       \/ policy_violations_file' # policy_violations_file

\* C16: validate_transaction and record_transaction raise when the daily-spend
\* file cannot be parsed.
C16_CorruptReadSurfaces ==
    [][(EngineCallStep /\ daily_spends_file.corrupt) => ret'.raised]_vars

\* C17: a record_transaction whose write of the daily-spend file fails raises,
\* and today's persisted DailySpend is afterwards what it was before the call.
C17_FailedWriteKeepsPrior ==
    [][\A request \in RecordRequests, fault \in Faults \ {"none"} :
          SRecordTransaction(request, "tx1", fault, "none") =>
              /\ ret'.raised
              /\ load_daily_spend(daily_spends_file', today)
                    = load_daily_spend(daily_spends_file, today)]_vars


(***************************************************************************)
(* Proposal lifecycle                                                      *)
(***************************************************************************)
LegalTransitions == {<<"pending", "approved">>, <<"pending", "rejected">>,
                     <<"pending", "expired">>, <<"approved", "executed">>}

\* C19: over any sequence of generate_proposal, approve_proposal,
\* reject_proposal, mark_executed and expire_old_proposals, a proposal that
\* appears in the file appears as pending, and the stored status of a proposal
\* changes only pending->approved, pending->rejected, pending->expired or
\* approved->executed; so rejected, expired and executed are never left.
C19_LegalTransitionsOnly ==
    [][\A id \in ProposalIds :
         LET old == _load_funding_proposals(funding_proposals_file)
             new == _load_funding_proposals(funding_proposals_file')
         IN /\ (id \in DOMAIN new /\ id \notin DOMAIN old) => new[id].status = "pending"
            /\ (id \in DOMAIN new /\ id \in DOMAIN old) =>
                  \/ new[id].status = old[id].status
                  \/ <<old[id].status, new[id].status>> \in LegalTransitions]_vars

\* one proposal went pending->approved->executed, another pending->expired
C19_Witness ==
    LET proposals == _load_funding_proposals(funding_proposals_file)
    IN /\ \E id \in DOMAIN proposals : proposals[id].status = "executed"
       /\ \E id \in DOMAIN proposals : proposals[id].status = "expired"

\* a call of the proposal manager was made in this step
FundingStep == fret' # fret \/ funding_proposals_file' # funding_proposals_file

\* C20: approve_proposal and reject_proposal on a stored proposal that is not
\* pending, and mark_executed on a stored proposal that is not approved, raise
\* an error and leave the proposals file as it was: no status change, no
\* approved/rejected/executed stamp.
C20_WrongStatusFailsUnchanged ==
    [][\A id \in DOMAIN _load_funding_proposals(funding_proposals_file) :
         LET status == _load_funding_proposals(funding_proposals_file)[id].status
             wrong == \/ /\ fret'.op \in {"approve_proposal", "reject_proposal"}
                         /\ status # "pending"
                      \/ /\ fret'.op = "mark_executed"
                         /\ status # "approved"
         IN (FundingStep /\ fret'.proposal_id = id /\ wrong) =>
               /\ fret'.error # "None"
               /\ funding_proposals_file' = funding_proposals_file]_vars

\* approve_proposal was refused on an executed proposal, which still carries
\* the one approval stamp it got while pending
C20_Witness ==
    LET proposals == _load_funding_proposals(funding_proposals_file)
    IN /\ fret.op = "approve_proposal"
       /\ fret.error = "is not in pending status"
       /\ fret.proposal_id \in DOMAIN proposals
       /\ proposals[fret.proposal_id].status = "executed"
       /\ proposals[fret.proposal_id].approved_at < now

\* C21: when expire_old_proposals runs concurrently with approve_proposal or
\* reject_proposal on one old pending proposal, a proposal stored as approved
\* or rejected is never afterwards stored as expired.
C21_DecidedNeverExpired ==
    [][\A id \in ProposalIds :
         LET old == _load_funding_proposals(funding_proposals_file)
             new == _load_funding_proposals(funding_proposals_file')
         IN (id \in DOMAIN old /\ id \in DOMAIN new /\
             old[id].status \in {"approved", "rejected"}) => new[id].status # "expired"]_vars

\* the stored proposals with that status, counted in the file itself
WithStatus(file, status) ==
    {id \in DOMAIN _load_funding_proposals(file) :
        _load_funding_proposals(file)[id].status = status}

\* C22: the number of pending proposals never exceeds
\* funding_proposal_max_pending, whatever the ceiling, and generate_proposal
\* called with the pending count at or above the ceiling raises and stores
\* nothing.
C22_PendingWithinCeiling ==
    [][/\ Cardinality(WithStatus(funding_proposals_file', "pending"))
             <= funding_proposal_max_pending
       /\ (/\ FundingStep
           /\ fret'.op = "generate_proposal"
           /\ Cardinality(WithStatus(funding_proposals_file, "pending"))
                 >= funding_proposal_max_pending)
          => /\ fret'.error # "None"
             /\ funding_proposals_file' = funding_proposals_file]_vars

\* C23: expire_old_proposals(max_age_hours) turns every pending proposal
\* created before now - max_age_hours into expired, however many are stored,
\* leaves every other proposal as it was, and returns the number it changed.
C23_ExpiresEveryOldPending ==
    [][(FundingStep /\ fret'.op = "expire_old_proposals") =>
         LET old == _load_funding_proposals(funding_proposals_file)
             new == _load_funding_proposals(funding_proposals_file')
             due == {id \in DOMAIN old : /\ old[id].status = "pending"
                                         /\ old[id].created_at < now - fret'.max_age_hours}
         IN /\ DOMAIN new = DOMAIN old
            /\ \A id \in due : new[id] = [old[id] EXCEPT !.status = "expired"]
            /\ \A id \in DOMAIN old \ due : new[id] = old[id]
            /\ fret'.count = Cardinality({id \in DOMAIN old : new[id] # old[id]})]_vars

\* C24: expire_old_proposals run a second time, with the same max_age_hours,
\* no time passed and no other call in between, returns 0 and leaves the
\* stored proposals as the first run left them.
C24_ExpireIdempotent ==
    [][(/\ fret.op = "expire_old_proposals"
        /\ fret.at = now
        /\ fret'.op = "expire_old_proposals"
        /\ fret'.max_age_hours = fret.max_age_hours
        /\ now' = now)
       => /\ fret'.count = 0
          /\ funding_proposals_file' = funding_proposals_file]_vars

\* C30: get_proposal_statistics reports approval_rate 0 when no stored
\* proposal is approved or rejected, and otherwise approved / (approved +
\* rejected), counted over all stored proposals by their current status.
C30_ApprovalRate ==
    LET approved == Cardinality(WithStatus(funding_proposals_file, "approved"))
        rejected == Cardinality(WithStatus(funding_proposals_file, "rejected"))
        rate == fret.stats.approval_rate
    IN fret.op = "get_proposal_statistics" =>
          IF approved + rejected = 0 THEN rate[1] = 0
          ELSE rate[1] * (approved + rejected) = approved * rate[2]

\* the category of failure a message of the proposal manager stands for
Category(error) ==
    CASE error = "not found" -> "NotFound"
      [] error \in {"is not in pending status", "is not approved"} -> "InvalidState"
      [] error = "Maximum pending proposals reached" -> "CapacityExceeded"
      [] OTHER -> "None"

\* C28: an unknown proposal id, an illegal lifecycle transition and a full
\* pending ceiling are reported as three different kinds of error: two failed
\* calls of different categories differ in the class of the exception raised,
\* not only in its message.
C28_DistinctErrorKinds ==
    [][(/\ fret.error # "None"
        /\ fret'.error # "None"
        /\ Category(fret.error) # Category(fret'.error))
       => fret.exception # fret'.exception]_vars

\* the most recent cap entries of a log, in the order they were appended
MostRecent(log, cap) ==
    LET n == Min(Len(log), cap)
    IN [i \in 1..n |-> log[Len(log) - n + i]]

\* C29: after any sequence of appends the transaction history holds at most
\* 1000 entries and the violation log at most 500, and each holds the most
\* recently appended entries in the order they were appended: every append
\* puts its entry at the end and, on a full log, evicts the oldest entry.
C29_LogsBoundedFifo ==
    [][/\ Len(_load_list(transaction_history_file')) <= 1000
       /\ Len(_load_list(policy_violations_file')) <= 500
       /\ (ret' # ret /\ ret'.op = "save_transaction") =>
             _load_list(transaction_history_file') =
                MostRecent(Append(_load_list(transaction_history_file),
                                  TransactionRecord(ret'.request, ret'.txid)), 1000)
       /\ (ret' # ret /\ ret'.op = "save_policy_violation") =>
             _load_list(policy_violations_file') =
                MostRecent(Append(_load_list(policy_violations_file),
                                  ret'.violations[1]), 500)]_vars

\* both logs are full and have evicted their oldest entries: each holds
\* consecutive entries that no longer start with the first one appended
C29_Witness ==
    LET history == _load_list(transaction_history_file)
        violations == _load_list(policy_violations_file)
    IN /\ Len(history) = 1000
       /\ history[1].amount_sats > 1
       /\ \A i \in 1..1000 : history[i].amount_sats = history[1].amount_sats + i - 1
       /\ Len(violations) = 500
       /\ violations[1].timestamp > 1
       /\ \A i \in 1..500 : violations[i].timestamp = violations[1].timestamp + i - 1

\* the timestamp of the last webhook call is a number within 300 seconds of
\* the current time of that call, before or after
WithinWindow ==
    /\ int(wret.timestamp).error = "None"
    /\ Abs(wret.current_time - int(wret.timestamp).value) <= 300

\* C25: with a webhook secret configured, verify_webhook_signature returns
\* true if and only if the timestamp is within 300 seconds of the current time
\* and the signature is the HMAC-SHA256, under that secret, of the timestamp
\* followed by the raw body; so a signature made with another secret and a
\* right signature with a timestamp 600 s old are both rejected.
C25_SignatureIff ==
    (wret.op = "verify_webhook_signature" /\ config.n8n_webhook_secret # "") =>
       (wret.verified <=>
          /\ WithinWindow
          /\ wret.signature = hexdigest(config.n8n_webhook_secret,
                                        wret.timestamp \o wret.body))

\* a right signature whose timestamp is exactly 300 seconds old is accepted
C25_Witness ==
    /\ wret.op = "verify_webhook_signature"
    /\ config.n8n_webhook_secret = "s1"
    /\ wret.timestamp = "1000"
    /\ wret.current_time = 1300
    /\ wret.verified

\* C26: with no webhook secret configured, verify_webhook_signature rejects
\* every request when env is "prod" and accepts every request otherwise; in
\* "prod" no request to the approval endpoint is let past authentication.
C26_NoSecretByEnv ==
    config.n8n_webhook_secret = "" =>
       /\ wret.op = "verify_webhook_signature" => (wret.verified <=> config.env # "prod")
       /\ (wret.op = "receive_approval" /\ config.env = "prod") => wret.status_code = 401

\* in "prod" without a secret, a request that carries a well-formed signature
\* over its own timestamp and body is rejected
C26_Witness ==
    /\ config.n8n_webhook_secret = ""
    /\ config.env = "prod"
    /\ wret.op = "verify_webhook_signature"
    /\ wret.timestamp = "1000"
    /\ wret.current_time = 1000
    /\ wret.signature = hexdigest("s1", wret.timestamp \o wret.body)
    /\ ~wret.verified

\* C27: a POST to /webhook/approval is answered 401 when the authentication
\* headers are missing or wrong, else 400 when the payload is malformed (bad
\* JSON, no object with proposal_id and status, a status other than approved
\* or rejected), else 404 when the proposal is unknown, else 400 when the
\* proposal is not pending, else 200.
C27_StatusCodes ==
    [][((wret' # wret \/ funding_proposals_file' # funding_proposals_file)
        /\ wret'.op = "receive_approval") =>
         LET authenticated ==
                 /\ wret'.signature # NoSignature
                 /\ wret'.timestamp # ""
                 /\ verify_webhook_signature(config, wret'.body, wret'.signature,
                                             wret'.timestamp, wret'.current_time)
             data == json_loads(wret'.body)
             malformed == \/ data.error # "None"
                          \/ ~data.object
                          \/ data.proposal_id = 0
                          \/ data.status \notin {"approved", "rejected"}
             stored == _load_funding_proposals(funding_proposals_file)
         IN wret'.status_code =
               IF ~authenticated THEN 401
               ELSE IF malformed THEN 400
               ELSE IF data.proposal_id \notin DOMAIN stored THEN 404
               ELSE IF stored[data.proposal_id].status # "pending" THEN 400
               ELSE 200]_vars

\* the records of the n calendar days ending on day d, newest first, days
\* without a record left out
RECURSIVE Trailing(_, _)
Trailing(d, n) ==
    IF n = 0 THEN <<>>
    ELSE (IF LedgerHas(d) THEN <<LedgerRec(d)>> ELSE <<>>) \o Trailing(d - 1, n - 1)

\* C31: get_daily_spend_summary(days) returns the DailySpend records of the
\* trailing `days` calendar days ending today, newest first, days without a
\* record omitted; the same list with a persistence manager and without.
C31_SummaryTrailingDays ==
    ret.op = "summary" => ret.summary = Trailing(ret.day, ret.days)

\* C32: cleanup_old_data(days) removes exactly the DailySpend records dated
\* earlier than today minus days and leaves every other record unchanged; no
\* other operation removes a DailySpend record.
C32_CleanupRemovesOnlyOld ==
    [][LET old == _load_daily_spends(daily_spends_file)
           new == _load_daily_spends(daily_spends_file')
       IN IF ret'.op = "cleanup" /\ ret' # ret
          THEN /\ DOMAIN new = {d \in DOMAIN old : d >= today - ret'.days}
               /\ \A d \in DOMAIN new : new[d] = old[d]
          ELSE DOMAIN old \subseteq DOMAIN new]_vars

\* C33: Policy(...) is accepted exactly when max_daily_spend_sats > 0 and
\* 0 < max_single_tx_sats <= max_daily_spend_sats, and rejected otherwise; the
\* policy an engine runs with never has its single-transaction cap above its
\* daily cap.
C33_PolicyCapsOrdered ==
    /\ policy.max_daily_spend_sats > 0
    /\ policy.max_single_tx_sats > 0
    /\ policy.max_single_tx_sats <= policy.max_daily_spend_sats
    /\ ret.op = "Policy" =>
          LET d == ret.policy_args.max_daily_spend_sats
              s == ret.policy_args.max_single_tx_sats
          IN /\ ret.raised <=> ~(d > 0 /\ 0 < s /\ s <= d)
             /\ ~ret.raised => /\ policy.max_daily_spend_sats = d
                               /\ policy.max_single_tx_sats = s

\* a construction with both caps positive and the single cap one above the
\* daily cap was rejected, and the engine kept its policy
C33_Witness ==
    /\ ret.op = "Policy"
    /\ ret.raised
    /\ ret.policy_args.max_daily_spend_sats > 0
    /\ ret.policy_args.max_single_tx_sats = ret.policy_args.max_daily_spend_sats + 1
    /\ policy.max_single_tx_sats <= policy.max_daily_spend_sats

\* C34: with one caller that records a request only after validate_transaction
\* returned no violation for it, and no other writer, no day's recorded total
\* exceeds max_daily_spend_sats.
C34_TotalWithinDailyCap ==
    \A d \in Days :
        LedgerHas(d) => LedgerRec(d).total_spent_sats <= policy.max_daily_spend_sats

\* a second validated request was recorded on a day and filled the daily cap
C34_Witness ==
    /\ ret.op = "record"
    /\ LedgerHas(today)
    /\ LedgerRec(today).transaction_count = 2
    /\ LedgerRec(today).total_spent_sats = policy.max_daily_spend_sats

\* the call of caller p that returned last was a successful approve_proposal
\* or reject_proposal of proposal id
Decided(p, id) ==
    /\ fproc[p].pc = "idle"
    /\ fproc[p].op \in {"approve_proposal", "reject_proposal"}
    /\ fproc[p].error = "None"
    /\ fproc[p].proposal.proposal_id = id

\* C35: of an approve_proposal and a reject_proposal (or two approvals) that
\* run concurrently for the same pending proposal at most one succeeds, and
\* the stored proposal is the one the successful call wrote.
C35_OneDecisionSucceeds ==
    \A id \in ProposalIds :
        /\ ~(Decided("loop", id) /\ Decided("webhook", id))
        /\ \A p \in FProcs :
              Decided(p, id) =>
                  load_funding_proposal(funding_proposals_file, id).proposal = fproc[p].proposal

\* C37: save_funding_proposal stores its proposal and leaves every other
\* stored proposal as it was, also when two saves for different proposal ids
\* interleave, so that both proposals have their new content afterwards.
C37_SaveLeavesOthers ==
    [][\A p \in FProcs :
          (fproc[p].pc = "write" /\ fproc'[p].pc # "write") =>
              LET old == _load_funding_proposals(funding_proposals_file)
                  new == _load_funding_proposals(funding_proposals_file')
                  id == fproc[p].proposal.proposal_id
              IN /\ id \in DOMAIN new
                 /\ new[id] = fproc[p].proposal
                 /\ \A i \in DOMAIN old \ {id} : i \in DOMAIN new /\ new[i] = old[i]]_vars

\* C36: the save of the n8n workflow id after send_proposal returned stores
\* the id and leaves the proposal's status as it is stored: a proposal that
\* was approved or rejected while the send was in flight stays so.
C36_WorkflowIdKeepsStatus ==
    [][(/\ fproc["loop"].op = "save_workflow_id"
        /\ fproc["loop"].pc = "write"
        /\ fproc'["loop"].pc # "write")
       => LET old == _load_funding_proposals(funding_proposals_file)
              new == _load_funding_proposals(funding_proposals_file')
              id == fproc["loop"].proposal.proposal_id
          IN /\ new[id].n8n_workflow_id = fproc["loop"].proposal.n8n_workflow_id
             /\ new[id].status = old[id].status]_vars

\* C38: a request to /webhook/approval changes a stored proposal only if it
\* carried both headers, verify_webhook_signature returned true for it and
\* its payload named a stored pending proposal with status approved or
\* rejected; every other request leaves the proposals file as it is.
C38_OnlyVerifiedRequestsDecide ==
    [][(/\ wret'.op = "receive_approval"
        /\ fret' = fret
        /\ funding_proposals_file' # funding_proposals_file)
       => LET data == json_loads(wret'.body)
              stored == _load_funding_proposals(funding_proposals_file)
          IN /\ wret'.signature # NoSignature
             /\ wret'.timestamp # ""
             /\ verify_webhook_signature(config, wret'.body, wret'.signature,
                                         wret'.timestamp, wret'.current_time)
             /\ data.error = "None"
             /\ data.status \in {"approved", "rejected"}
             /\ data.proposal_id \in DOMAIN stored
             /\ stored[data.proposal_id].status = "pending"
             /\ wret'.status_code = 200]_vars

\* a request that names the stored pending proposal and carries a signature
\* made with another secret was answered 401, and the proposal is still pending
C38_Witness ==
    /\ wret.op = "receive_approval"
    /\ wret.status_code = 401
    /\ config.n8n_webhook_secret = "s1"
    /\ wret.signature = hexdigest("s2", wret.timestamp \o wret.body)
    /\ json_loads(wret.body).proposal_id = 1
    /\ json_loads(wret.body).status = "approved"
    /\ load_funding_proposal(funding_proposals_file, 1).found
    /\ load_funding_proposal(funding_proposals_file, 1).proposal.status = "pending"

\* C39: an exception in a decision cycle never ends start_autonomous_mode (the
\* loop sleeps 60 s and tests its condition again, against 300 s after a cycle
\* that returned); once stop_autonomous_mode has set is_active to false no
\* further cycle starts and the loop eventually returns.
C39_LoopSurvivesAndStops ==
    /\ [][(agent.pc = "cycle" /\ agent'.pc # "cycle") =>
             /\ agent'.pc = "sleep"
             /\ agent'.slept = IF agent'.failures > agent.failures THEN 60 ELSE 300]_vars
    /\ [][(agent.pc = "sleep" /\ agent'.pc # "sleep") => agent'.pc = "while"]_vars
    /\ [][(agent.pc # "new" /\ ~agent.is_active) => agent'.cycles = agent.cycles]_vars
    /\ (agent.pc # "new" /\ ~agent.is_active) ~> (agent.pc = "returned")

\* the loop went on after a cycle that raised, ran a later cycle, and has
\* returned after a stop request
C39_Witness ==
    /\ agent.pc = "returned"
    /\ ~agent.is_active
    /\ agent.failures >= 1
    /\ agent.cycles > agent.failures
    /\ agent.slept = 300
====
